---- MODULE Spec2Model ----
(***************************************************************************)
(* Model of the NL-to-answer query pipeline of cap (src/cap/api/nl_query.py)*)
(*                                                                         *)
(*   SpecExec : _execute_sequential_queries with _evaluate_injection, on    *)
(*              texts represented as sequences of one-character strings.   *)
(*   Spec     : response_stream (cache gate, generation, execution, cache  *)
(*              store, contextualize) with _stream_with_timeout_messages   *)
(*              and a discrete clock.                                      *)
(***************************************************************************)
EXTENDS Integers, Sequences, FiniteSets, TLC

(***************************************************************************)
(* Texts.  A text is a sequence of one-character strings.                  *)
(***************************************************************************)
Lower == {"a","b","c","d","e","f","g","h","i","j","k","l","m",
          "n","o","p","q","r","s","t","u","v","w","x","y","z"}
Upper == {"A","B","C","D","E","F","G","H","I","J","K","L","M",
          "N","O","P","Q","R","S","T","U","V","W","X","Y","Z"}
DigitChars == <<"0","1","2","3","4","5","6","7","8","9">>
Digit == {DigitChars[i] : i \in 1..10}
IdStart == Lower \cup Upper \cup {"_"}
WordChar == IdStart \cup Digit

DigitVal(c) == (CHOOSE i \in 1..10 : DigitChars[i] = c) - 1

Min2(a, b) == IF a <= b THEN a ELSE b
AbsInt(a) == IF a < 0 THEN -a ELSE a

\* s[i..j] (1-based, inclusive); empty when j < i
Slice(s, i, j) == IF j < i THEN << >> ELSE SubSeq(s, i, j)

\* p occurs in s starting at position i
MatchAt(s, i, p) ==
    /\ i >= 1
    /\ i + Len(p) - 1 <= Len(s)
    /\ \A k \in 1..Len(p) : s[i + k - 1] = p[k]

\* the least element of a non-empty set of positions, 0 for the empty set
Least(ps) == IF ps = {} THEN 0 ELSE CHOOSE i \in ps : \A j \in ps : i <= j

\* least position >= from at which p occurs in s, 0 when there is none
Find(s, p, from) == Least({i \in from..(Len(s) - Len(p) + 1) : MatchAt(s, i, p)})

\* python: p in s
Contains(s, p) == \E i \in 1..(Len(s) - Len(p) + 1) : MatchAt(s, i, p)

\* python: s.replace(p, r) for a non-empty p: every non-overlapping
\* occurrence, left to right; i is the next occurrence at or after from
RECURSIVE ReplaceFrom(_, _, _, _, _)
ReplaceFrom(s, p, r, from, i) ==
    IF i = 0 THEN Slice(s, from, Len(s))
    ELSE Slice(s, from, i - 1) \o r
         \o ReplaceFrom(s, p, r, i + Len(p), Find(s, p, i + Len(p)))

ReplaceAll(s, p, r) == ReplaceFrom(s, p, r, 1, Find(s, p, 1))

\* python: s.replace(p, r, 1), i the first occurrence of p
ReplaceAtFirst(s, p, r, i) ==
    IF i = 0 THEN s
    ELSE Slice(s, 1, i - 1) \o r \o Slice(s, i + Len(p), Len(s))

ReplaceFirst(s, p, r) == ReplaceAtFirst(s, p, r, Find(s, p, 1))

\* end of the maximal run of characters of set cs starting at i (i-1 if none)
RECURSIVE RunEnd(_, _, _)
RunEnd(s, i, cs) ==
    IF i <= Len(s) /\ s[i] \in cs THEN RunEnd(s, i + 1, cs) ELSE i - 1

\* python: str(n) for an int
RECURSIVE NatToStr(_)
NatToStr(n) ==
    IF n < 10 THEN <<DigitChars[n + 1]>>
    ELSE NatToStr(n \div 10) \o <<DigitChars[(n % 10) + 1]>>

IntToStr(n) == IF n < 0 THEN <<"-">> \o NatToStr(-n) ELSE NatToStr(n)

\* value of a run of digits
RECURSIVE DigitsToNat(_)
DigitsToNat(s) ==
    IF s = << >> THEN 0
    ELSE 10 * DigitsToNat(Slice(s, 1, Len(s) - 1)) + DigitVal(s[Len(s)])

RECURSIVE Pow10(_)
Pow10(k) == IF k = 0 THEN 1 ELSE 10 * Pow10(k - 1)

RECURSIVE Gcd(_, _)
Gcd(a, b) == IF b = 0 THEN a ELSE Gcd(b, a % b)

(***************************************************************************)
(* Python values.  One record shape for all of them:                       *)
(*   t = "int" | "float" | "bool" | "str" | "func" | "err" | "unm"         *)
(*   n/d = the number as a fraction in lowest terms (d = 1 for int, bool)  *)
(*   s   = the text of a str, the name of a func                           *)
(* "err" is a raised exception; "unm" marks python the model has no        *)
(* definition for (NoUnmodelled states that no run meets one).             *)
(***************************************************************************)
MkInt(n) == [t |-> "int", n |-> n, d |-> 1, s |-> << >>]
MkBool(b) == [t |-> "bool", n |-> IF b THEN 1 ELSE 0, d |-> 1, s |-> << >>]
Fraction(n, d, g) == [t |-> "float", n |-> n \div g, d |-> d \div g, s |-> << >>]
MkFloat(n, d) ==
    IF d < 0 THEN Fraction(-n, -d, Gcd(AbsInt(n), AbsInt(d)))
    ELSE Fraction(n, d, Gcd(AbsInt(n), AbsInt(d)))
MkStr(s) == [t |-> "str", n |-> 0, d |-> 1, s |-> s]
MkFunc(s) == [t |-> "func", n |-> 0, d |-> 1, s |-> s]
Err == [t |-> "err", n |-> 0, d |-> 1, s |-> << >>]
Unm == [t |-> "unm", n |-> 0, d |-> 1, s |-> << >>]

\* python: isinstance(v, (int, float)); bool is a subclass of int
IsNumber(v) == v.t \in {"int", "float", "bool"}
IsFloat(v) == v.t = "float"

\* comparisons of numbers as fractions
NumLt(a, b) == a.n * b.d < b.n * a.d
NumEq(a, b) == a.n * b.d = b.n * a.d
BelowOne(v) == v.n < v.d

FloorDiv(n, d) == n \div d
CeilDiv(n, d) == -((-n) \div d)
TruncDiv(n, d) == IF n >= 0 THEN n \div d ELSE -((-n) \div d)

\* python: round(x) of a float: nearest integer, ties to the even one
RoundHalfEven(n, d) ==
    IF 2 * (n % d) < d THEN n \div d
    ELSE IF 2 * (n % d) > d THEN (n \div d) + 1
    ELSE IF (n \div d) % 2 = 0 THEN n \div d ELSE (n \div d) + 1

\* python: int(round(v)) for a number v
IntRound(v) == IF v.t = "float" THEN RoundHalfEven(v.n, v.d) ELSE v.n

\* python: str(x) of a float with a finite decimal expansion
RECURSIVE FracDigits(_, _, _)
FracDigits(r, d, fuel) ==
    IF r = 0 \/ fuel = 0 THEN << >>
    ELSE <<DigitChars[((10 * r) \div d) + 1]>> \o FracDigits((10 * r) % d, d, fuel - 1)

FloatToStr(v) ==
    (IF v.n < 0 THEN <<"-">> ELSE << >>)
    \o NatToStr(AbsInt(v.n) \div v.d) \o <<".">>
    \o (IF AbsInt(v.n) % v.d = 0 THEN <<"0">> ELSE FracDigits(AbsInt(v.n) % v.d, v.d, 6))

\* python: str(v)
PyStr(v) ==
    CASE v.t = "int" -> IntToStr(v.n)
      [] v.t = "float" -> FloatToStr(v)
      [] v.t = "bool" -> IF v.n = 1 THEN <<"T","r","u","e">> ELSE <<"F","a","l","s","e">>
      [] v.t = "str" -> v.s
      [] OTHER -> <<"?">>

\* a text of the shape [-]digits[.digits]: what float() and int() accept
\* among the raw values and literals of the model
IsDigits(s) == s # << >> /\ \A i \in 1..Len(s) : s[i] \in Digit

Unsigned(s) == IF s # << >> /\ s[1] \in {"-", "+"} THEN Tail(s) ELSE s
SignOf(s) == IF s # << >> /\ s[1] = "-" THEN -1 ELSE 1

IsIntText(s) == IsDigits(Unsigned(s))

\* u = digits "." digits, dot the position of the first "."
IsDecimalAt(u, dot) ==
    /\ dot # 0
    /\ IsDigits(Slice(u, 1, dot - 1))
    /\ IsDigits(Slice(u, dot + 1, Len(u)))

IsDecimalText(s) == IsDecimalAt(Unsigned(s), Find(Unsigned(s), <<".">>, 1))

\* the number ip "." fr, with sign sg
Decimal(sg, ip, fr) ==
    MkFloat(sg * (DigitsToNat(ip) * Pow10(Len(fr)) + DigitsToNat(fr)), Pow10(Len(fr)))

DecimalAt(sg, u, dot) == Decimal(sg, Slice(u, 1, dot - 1), Slice(u, dot + 1, Len(u)))

\* python: float(s) for a str s; Err is ValueError
ParseFloat(s) ==
    IF IsIntText(s) THEN MkFloat(SignOf(s) * DigitsToNat(Unsigned(s)), 1)
    ELSE IF IsDecimalText(s)
    THEN DecimalAt(SignOf(s), Unsigned(s), Find(Unsigned(s), <<".">>, 1))
    ELSE Err

(***************************************************************************)
(* The expression language of eval(expr, safe_dict, {}) that the model     *)
(* defines: numbers, quoted texts, True/False, the names of safe_dict,     *)
(* calls, unary and binary + - * /, one comparison, parentheses.           *)
(* Every exception eval can raise is Err; python outside this language     *)
(* is Unm.  Texts of the model hold no backslash and no double quote.      *)
(***************************************************************************)
SafeNames == { <<"i","n","t">>, <<"f","l","o","a","t">>, <<"r","o","u","n","d">>,
               <<"a","b","s">>, <<"m","i","n">>, <<"m","a","x">>,
               <<"c","e","i","l">>, <<"f","l","o","o","r">> }

Keywords == { <<"a","n","d">>, <<"o","r">>, <<"n","o","t">>, <<"i","f">>,
              <<"e","l","s","e">>, <<"i","n">>, <<"i","s">>, <<"f","o","r">>,
              <<"l","a","m","b","d","a">>, <<"N","o","n","e">>,
              <<"a","w","a","i","t">>, <<"y","i","e","l","d">> }

TrueText == <<"T","r","u","e">>
FalseText == <<"F","a","l","s","e">>

Tk(k, s, v) == [k |-> k, s |-> s, v |-> v]
EndTok == Tk("end", << >>, Err)
BadTok == Tk("bad", << >>, Err)
UnmTok == Tk("unm", << >>, Unm)

TwoCharOps == { <<"<","=">>, <<">","=">>, <<"=","=">>, <<"!","=">> }
TwoCharUnm == { <<"*","*">>, <<"/","/">>, <<"<","<">>, <<">",">">>, <<":","=">>,
                <<"-",">">> }
OneCharOps == {"+", "-", "*", "/", "(", ")", ",", "<", ">"}
BadChars == {"$", "?", "!"}

\* the number literal with integer part ip and, when hasDot, fraction fr,
\* ending at e: [e, v |-> its value, leadingZero |-> a SyntaxError such as 07]
NumberSpan(ip, fr, hasDot, e) ==
    [e |-> e,
     v |-> IF hasDot THEN Decimal(1, ip, fr) ELSE MkInt(DigitsToNat(ip)),
     leadingZero |-> ~hasDot /\ Len(ip) > 1 /\ ip[1] = "0" /\ DigitsToNat(ip) # 0]

\* the number literal starting at i whose leading digits end at e1
NumberFrom(s, i, e1) ==
    IF e1 + 1 <= Len(s) /\ s[e1 + 1] = "."
    THEN NumberSpan(Slice(s, i, e1), Slice(s, e1 + 2, RunEnd(s, e1 + 2, Digit)), TRUE,
                    RunEnd(s, e1 + 2, Digit))
    ELSE NumberSpan(Slice(s, i, e1), << >>, FALSE, e1)

NumberAt(s, i) == NumberFrom(s, i, RunEnd(s, i, Digit))

\* what a word w glued to the end of a number makes of it: another literal
\* form (exponent, complex, digit separator, 0x 0o 0b) or a keyword is
\* "unm", any other word is a SyntaxError; zero: the number is all zeros
AfterWord(w, zero) ==
    IF w = << >> THEN "ok"
    ELSE IF w \in Keywords THEN "unm"
    ELSE IF w[1] \in {"e", "E"} /\ (Len(w) = 1 \/ w[2] \in Digit) THEN "unm"
    ELSE IF w \in { <<"j">>, <<"J">> } THEN "unm"
    ELSE IF w[1] = "_" /\ Len(w) > 1 /\ w[2] \in Digit THEN "unm"
    ELSE IF zero /\ w[1] \in {"x", "X", "o", "O", "b", "B"} THEN "unm"
    ELSE "bad"

AfterNumber(s, i, e) ==
    AfterWord(Slice(s, e + 1, RunEnd(s, e + 1, WordChar)), \A k \in i..e : s[k] = "0")

\* a word that may be a string prefix (r'..', b'..', f'..', rb'..')
IsStringPrefix(w) == Len(w) <= 2 /\ \A k \in 1..Len(w) : w[k] \in {"r","R","b","B","f","F","u","U"}

\* the tokens of s from position i on; a "bad" or "unm" token ends them
RECURSIVE Tokenize(_, _), NumberToken(_, _, _), WordToken(_, _, _), StringToken(_, _, _),
          OperatorToken(_, _, _, _)

\* a number nm, aft what follows it
NumberToken(s, nm, aft) ==
    IF nm.leadingZero \/ aft = "bad" THEN <<BadTok>>
    ELSE IF aft = "unm" THEN <<UnmTok>>
    ELSE <<Tk("num", << >>, nm.v)>> \o Tokenize(s, nm.e + 1)

\* a word w ending at e
WordToken(s, e, w) ==
    IF e < Len(s) /\ s[e + 1] = "'" /\ IsStringPrefix(w) THEN <<UnmTok>>
    ELSE IF w = TrueText THEN <<Tk("num", << >>, MkBool(TRUE))>> \o Tokenize(s, e + 1)
    ELSE IF w = FalseText THEN <<Tk("num", << >>, MkBool(FALSE))>> \o Tokenize(s, e + 1)
    ELSE IF w \in Keywords THEN <<UnmTok>>
    ELSE <<Tk("name", w, Err)>> \o Tokenize(s, e + 1)

\* a quoted text opened at i, j the position of the next quote (0: none)
StringToken(s, i, j) ==
    IF j = 0 THEN <<BadTok>>
    ELSE IF j = i + 1 /\ j < Len(s) /\ s[j + 1] = "'" THEN <<UnmTok>>
    ELSE <<Tk("str", Slice(s, i + 1, j - 1), MkStr(Slice(s, i + 1, j - 1)))>>
         \o Tokenize(s, j + 1)

\* the character c at i, c2 the two characters at i
OperatorToken(s, i, c, c2) ==
    IF c2 \in TwoCharOps THEN <<Tk("op", c2, Err)>> \o Tokenize(s, i + 2)
    ELSE IF c2 \in TwoCharUnm THEN <<UnmTok>>
    ELSE IF c \in OneCharOps THEN <<Tk("op", <<c>>, Err)>> \o Tokenize(s, i + 1)
    ELSE IF c \in BadChars THEN <<BadTok>>
    ELSE <<UnmTok>>

Tokenize(s, i) ==
    IF i > Len(s) THEN << >>
    ELSE IF s[i] = " " THEN Tokenize(s, i + 1)
    ELSE IF s[i] \in Digit \/ (s[i] = "." /\ i < Len(s) /\ s[i + 1] \in Digit)
    THEN NumberToken(s, NumberAt(s, i), AfterNumber(s, i, NumberAt(s, i).e))
    ELSE IF s[i] \in IdStart
    THEN WordToken(s, RunEnd(s, i, WordChar), Slice(s, i, RunEnd(s, i, WordChar)))
    ELSE IF s[i] = "'" THEN StringToken(s, i, Find(s, <<"'">>, i + 1))
    ELSE OperatorToken(s, i, s[i], Slice(s, i, Min2(i + 1, Len(s))))

Tok(ts, i) == IF i >= 1 /\ i <= Len(ts) THEN ts[i] ELSE EndTok
IsOp(tk, ops) == tk.k = "op" /\ tk.s \in ops

(***************************************************************************)
(* Operations on values, as python defines them for these types.           *)
(***************************************************************************)
AsFloat(v) == MkFloat(v.n, v.d)

\* fl: one operand is a float
ArithOf(op, a, b, fl) ==
    CASE op = <<"+">> -> IF fl THEN MkFloat(a.n * b.d + b.n * a.d, a.d * b.d)
                         ELSE MkInt(a.n + b.n)
      [] op = <<"-">> -> IF fl THEN MkFloat(a.n * b.d - b.n * a.d, a.d * b.d)
                         ELSE MkInt(a.n - b.n)
      [] op = <<"*">> -> IF fl THEN MkFloat(a.n * b.n, a.d * b.d)
                         ELSE MkInt(a.n * b.n)
      [] op = <<"/">> -> IF b.n = 0 THEN Err   \* ZeroDivisionError
                         ELSE MkFloat(a.n * b.d, a.d * b.n)

Arith(op, a, b) == ArithOf(op, a, b, IsFloat(a) \/ IsFloat(b))

RECURSIVE Repeat(_, _)
Repeat(s, k) == IF k <= 0 THEN << >> ELSE s \o Repeat(s, k - 1)

Compare(op, a, b) ==
    CASE op = <<"<">> -> MkBool(NumLt(a, b))
      [] op = <<">">> -> MkBool(NumLt(b, a))
      [] op = <<"<","=">> -> MkBool(~NumLt(b, a))
      [] op = <<">","=">> -> MkBool(~NumLt(a, b))
      [] op = <<"=","=">> -> MkBool(NumEq(a, b))
      [] op = <<"!","=">> -> MkBool(~NumEq(a, b))

CmpOps == { <<"<">>, <<">">> } \cup TwoCharOps

BinOp(op, a, b) ==
    IF a.t = "unm" \/ b.t = "unm" THEN Unm
    ELSE IF a.t = "err" \/ b.t = "err" THEN Err
    ELSE IF op \in CmpOps
    THEN IF IsNumber(a) /\ IsNumber(b) THEN Compare(op, a, b)
         ELSE IF a.t = "str" /\ b.t = "str" /\ op = <<"=","=">> THEN MkBool(a.s = b.s)
         ELSE IF a.t = "str" /\ b.t = "str" /\ op = <<"!","=">> THEN MkBool(a.s # b.s)
         ELSE IF {a.t, b.t} = {"str"} \/ "func" \in {a.t, b.t} THEN Unm
         ELSE IF op \in { <<"=","=">>, <<"!","=">> } THEN MkBool(op = <<"!","=">>)
         ELSE Err                                     \* TypeError
    ELSE IF IsNumber(a) /\ IsNumber(b) THEN Arith(op, a, b)
    ELSE IF a.t = "str" /\ b.t = "str" /\ op = <<"+">> THEN MkStr(a.s \o b.s)
    ELSE IF a.t = "str" /\ b.t \in {"int", "bool"} /\ op = <<"*">> THEN MkStr(Repeat(a.s, b.n))
    ELSE IF b.t = "str" /\ a.t \in {"int", "bool"} /\ op = <<"*">> THEN MkStr(Repeat(b.s, a.n))
    ELSE Err                                          \* TypeError

UnaryOp(op, a) ==
    IF a.t \in {"unm", "err"} THEN a
    ELSE IF ~IsNumber(a) THEN Err                     \* TypeError
    ELSE IF IsFloat(a) THEN MkFloat(IF op = <<"-">> THEN -a.n ELSE a.n, a.d)
    ELSE MkInt(IF op = <<"-">> THEN -a.n ELSE a.n)

\* python: min(a, b, ...) / max(a, b, ...) of numbers: the first extreme one
RECURSIVE Extreme(_, _, _)
Extreme(isMin, best, rest) ==
    IF rest = << >> THEN best
    ELSE IF (isMin /\ NumLt(rest[1], best)) \/ (~isMin /\ NumLt(best, rest[1]))
    THEN Extreme(isMin, rest[1], Tail(rest))
    ELSE Extreme(isMin, best, Tail(rest))

\* the builtin f of safe_dict applied to k arguments args, a the first
ApplyTo(f, args, k, a) ==
    CASE f = <<"i","n","t">> ->
            IF k = 0 THEN MkInt(0)
            ELSE IF k > 1 THEN Unm
            ELSE IF IsFloat(a) THEN MkInt(TruncDiv(a.n, a.d))
            ELSE IF IsNumber(a) THEN MkInt(a.n)
            ELSE IF a.t = "str"
                 THEN IF IsIntText(a.s) THEN MkInt(SignOf(a.s) * DigitsToNat(Unsigned(a.s)))
                      ELSE IF Contains(a.s, <<" ">>) \/ Contains(a.s, <<"_">>) THEN Unm
                      ELSE Err                        \* ValueError
            ELSE Err
      [] f = <<"f","l","o","a","t">> ->
            IF k = 0 THEN MkFloat(0, 1)
            ELSE IF k > 1 THEN Err
            ELSE IF IsNumber(a) THEN AsFloat(a)
            ELSE IF a.t = "str"
                 THEN IF IsIntText(a.s) \/ IsDecimalText(a.s) THEN ParseFloat(a.s)
                      ELSE IF \E i \in 1..Len(a.s) : a.s[i] \in Digit \cup {" ", "_"} THEN Unm
                      ELSE IF a.s \in { <<"i","n","f">>, <<"n","a","n">> } THEN Unm
                      ELSE Err                        \* ValueError
            ELSE Err
      [] f = <<"r","o","u","n","d">> ->
            IF k = 0 THEN Err
            ELSE IF k > 1 THEN Unm
            ELSE IF IsNumber(a) THEN MkInt(IntRound(a))
            ELSE Err
      [] f = <<"a","b","s">> ->
            IF k # 1 THEN Err
            ELSE IF IsFloat(a) THEN MkFloat(AbsInt(a.n), a.d)
            ELSE IF IsNumber(a) THEN MkInt(AbsInt(a.n))
            ELSE Err
      [] f \in { <<"m","i","n">>, <<"m","a","x">> } ->
            IF k = 0 THEN Err
            ELSE IF k = 1 THEN (IF IsNumber(a) THEN Err ELSE Unm)
            ELSE IF \A i \in 1..k : IsNumber(args[i])
            THEN Extreme(f = <<"m","i","n">>, a, Tail(args))
            ELSE IF \A i \in 1..k : args[i].t = "str" THEN Unm
            ELSE IF \E i \in 1..k : args[i].t = "func" THEN Unm
            ELSE Err                                  \* TypeError
      [] f = <<"c","e","i","l">> ->
            IF k # 1 THEN Err
            ELSE IF IsNumber(a) THEN MkInt(CeilDiv(a.n, a.d))
            ELSE Err
      [] f = <<"f","l","o","o","r">> ->
            IF k # 1 THEN Err
            ELSE IF IsNumber(a) THEN MkInt(FloorDiv(a.n, a.d))
            ELSE Err
      [] OTHER -> Err

ApplyFunc(f, args) == ApplyTo(f, args, Len(args), IF args = << >> THEN Err ELSE args[1])

Call(f, args) ==
    IF f.t = "unm" \/ \E i \in 1..Len(args) : args[i].t = "unm" THEN Unm
    ELSE IF f.t # "func" THEN Err                     \* NameError, TypeError
    ELSE IF \E i \in 1..Len(args) : args[i].t = "err" THEN Err
    ELSE ApplyFunc(f.s, args)

(***************************************************************************)
(* Parsing and evaluating a token sequence.  A result is [v, i]: the value *)
(* and the position of the next token; i = 0 ends the parse with v = Err   *)
(* (SyntaxError) or v = Unm.                                               *)
(***************************************************************************)
Res(v, i) == [v |-> v, i |-> i]
SynErr == Res(Err, 0)
UnmRes == Res(Unm, 0)
Args(vs, i, v) == [vs |-> vs, i |-> i, v |-> v]

RECURSIVE ParseExpr(_, _), ExprAfter(_, _), ParseArith(_, _), ArithLoop(_, _, _),
          ArithStep(_, _, _, _), ParseTerm(_, _), TermLoop(_, _, _), TermStep(_, _, _, _),
          ParseFactor(_, _), ParsePostfix(_, _), CallLoop(_, _, _), CallStep(_, _, _),
          ParseAtom(_, _), AtomOf(_, _, _), ParseArgs(_, _), ArgsAfter(_, _),
          ArithStart(_, _), TermStart(_, _), PostfixStart(_, _), Comparison(_, _, _),
          Parenthesised(_, _), Signed(_, _, _)

\* a (op b): at most one comparison
Comparison(ts, a, b) ==
    IF b.i = 0 THEN b
    ELSE IF IsOp(Tok(ts, b.i), CmpOps) THEN UnmRes
    ELSE Res(BinOp(Tok(ts, a.i).s, a.v, b.v), b.i)

ExprAfter(ts, a) ==
    IF a.i = 0 THEN a
    ELSE IF IsOp(Tok(ts, a.i), CmpOps) THEN Comparison(ts, a, ParseArith(ts, a.i + 1))
    ELSE a

ParseExpr(ts, i) == ExprAfter(ts, ParseArith(ts, i))

\* a sum: a term, then any number of '+' term or '-' term; b the term after
\* the operator at i
ArithStep(ts, acc, i, b) ==
    IF b.i = 0 THEN b ELSE ArithLoop(ts, BinOp(Tok(ts, i).s, acc, b.v), b.i)

ArithLoop(ts, acc, i) ==
    IF IsOp(Tok(ts, i), { <<"+">>, <<"-">> })
    THEN ArithStep(ts, acc, i, ParseTerm(ts, i + 1))
    ELSE Res(acc, i)

ArithStart(ts, a) == IF a.i = 0 THEN a ELSE ArithLoop(ts, a.v, a.i)

ParseArith(ts, i) == ArithStart(ts, ParseTerm(ts, i))

\* a product: a factor, then any number of '*' factor or '/' factor
TermStep(ts, acc, i, b) ==
    IF b.i = 0 THEN b ELSE TermLoop(ts, BinOp(Tok(ts, i).s, acc, b.v), b.i)

TermLoop(ts, acc, i) ==
    IF IsOp(Tok(ts, i), { <<"*">>, <<"/">> })
    THEN TermStep(ts, acc, i, ParseFactor(ts, i + 1))
    ELSE Res(acc, i)

TermStart(ts, a) == IF a.i = 0 THEN a ELSE TermLoop(ts, a.v, a.i)

ParseTerm(ts, i) == TermStart(ts, ParseFactor(ts, i))

\* the operand a of the sign at i
Signed(ts, i, a) == IF a.i = 0 THEN a ELSE Res(UnaryOp(Tok(ts, i).s, a.v), a.i)

ParseFactor(ts, i) ==
    IF IsOp(Tok(ts, i), { <<"+">>, <<"-">> })
    THEN Signed(ts, i, ParseFactor(ts, i + 1))
    ELSE ParsePostfix(ts, i)

\* an atom followed by call parentheses; as the arguments of the call
CallStep(ts, f, as) ==
    IF as.i = 0 THEN Res(as.v, 0) ELSE CallLoop(ts, Call(f, as.vs), as.i)

CallLoop(ts, f, i) ==
    IF IsOp(Tok(ts, i), { <<"(">> }) THEN CallStep(ts, f, ParseArgs(ts, i + 1))
    ELSE Res(f, i)

PostfixStart(ts, a) == IF a.i = 0 THEN a ELSE CallLoop(ts, a.v, a.i)

ParsePostfix(ts, i) == PostfixStart(ts, ParseAtom(ts, i))

\* the expression e after a "("
Parenthesised(ts, e) ==
    IF e.i = 0 THEN e
    ELSE IF IsOp(Tok(ts, e.i), { <<")">> }) THEN Res(e.v, e.i + 1)
    ELSE IF IsOp(Tok(ts, e.i), { <<",">> }) THEN UnmRes
    ELSE SynErr

AtomOf(ts, i, tk) ==
    CASE tk.k = "num" -> Res(tk.v, i + 1)
      [] tk.k = "str" -> IF Tok(ts, i + 1).k = "str" THEN UnmRes ELSE Res(tk.v, i + 1)
      [] tk.k = "name" -> Res(IF tk.s \in SafeNames THEN MkFunc(tk.s) ELSE Err, i + 1)
      [] IsOp(tk, { <<"(">> }) ->
            IF IsOp(Tok(ts, i + 1), { <<")">> }) THEN UnmRes
            ELSE Parenthesised(ts, ParseExpr(ts, i + 1))
      [] OTHER -> SynErr

ParseAtom(ts, i) == AtomOf(ts, i, Tok(ts, i))

\* the argument e followed by the arguments r
MoreArgs(e, r) == Args(<<e.v>> \o r.vs, r.i, r.v)

\* the arguments of a call, after its "(": [vs, i, v]; e the first of them
ArgsAfter(ts, e) ==
    IF e.i = 0 THEN Args(<< >>, 0, e.v)
    ELSE IF IsOp(Tok(ts, e.i), { <<")">> }) THEN Args(<<e.v>>, e.i + 1, Err)
    ELSE IF IsOp(Tok(ts, e.i), { <<",">> })
    THEN MoreArgs(e, ParseArgs(ts, e.i + 1))
    ELSE Args(<< >>, 0, Err)

ParseArgs(ts, i) ==
    IF IsOp(Tok(ts, i), { <<")">> }) THEN Args(<< >>, i + 1, Err)
    ELSE ArgsAfter(ts, ParseExpr(ts, i))

\* the value of the parse r of all of ts, last the last token
Outcome(ts, last, r) ==
    IF last.k = "unm" THEN Unm
    ELSE IF last.k = "bad" THEN Err
    ELSE IF r.i = 0 THEN r.v
    ELSE IF r.i <= Len(ts)
    THEN (IF IsOp(Tok(ts, r.i), { <<",">> }) THEN Unm ELSE Err)
    ELSE IF r.v.t = "func" THEN Unm
    ELSE r.v

EvalTokens(ts) == Outcome(ts, Tok(ts, Len(ts)), ParseExpr(ts, 1))

\* python: eval(text, safe_dict, {}), Err when it raises
EvalText(text) == EvalTokens(Tokenize(text, 1))

(***************************************************************************)
(* _evaluate_injection(expression, previous_results)                       *)
(* previous_results is a python dict: a sequence of [var, val] in          *)
(* insertion order, one entry per key.                                     *)
(***************************************************************************)
INJECT == <<"I","N","J","E","C","T">>
FROM_PREVIOUS == <<"_","F","R","O","M","_","P","R","E","V","I","O","U","S">>
EVALUATE == <<"e","v","a","l","u","a","t","e">>
LPAR == <<"(">>
RPAR == <<")">>

Keys(b) == {b[i].var : i \in 1..Len(b)}
IndexOf(b, var) == (CHOOSE i \in 1..Len(b) : b[i].var = var)

\* python: d[var] = val
DictPut(b, var, val) ==
    IF var \in Keys(b)
    THEN [b EXCEPT ![IndexOf(b, var)] = [var |-> var, val |-> val]]
    ELSE Append(b, [var |-> var, val |-> val])

\* re.search(r'evaluate\(([^)]+)\)', expr): group 1 of the leftmost match,
\* [found, inner]; i the next "evaluate(" , close the next ")" after it
RECURSIVE SearchEvaluate(_, _), EvaluateAt(_, _, _)
EvaluateAt(expr, i, close) ==
    IF i = 0 THEN [found |-> FALSE, inner |-> << >>]
    ELSE IF close > i + Len(EVALUATE) + 1
    THEN [found |-> TRUE, inner |-> Slice(expr, i + Len(EVALUATE) + 1, close - 1)]
    ELSE SearchEvaluate(expr, i + 1)

SearchEvaluate(expr, from) ==
    EvaluateAt(expr, Find(expr, EVALUATE \o LPAR, from),
               Find(expr, RPAR, Find(expr, EVALUATE \o LPAR, from) + Len(EVALUATE) + 1))

\* re.sub(r'^<prefix>\((.+)\)$', r'\1', expr) for a text of one line
StripWrapper(expr, prefix) ==
    IF /\ MatchAt(expr, 1, prefix \o LPAR)
       /\ Len(expr) >= Len(prefix) + 3
       /\ expr[Len(expr)] = ")"
    THEN Slice(expr, Len(prefix) + 2, Len(expr) - 1)
    ELSE expr

\* lines 246-247: expr = match.group(1) when 'evaluate(' is in it and matches
EvaluateInner(expression, m) ==
    IF Contains(expression, EVALUATE \o LPAR) /\ m.found THEN m.inner ELSE expression

\* lines 249-252: the INJECT wrapper stripped
StripInject(expr) ==
    IF MatchAt(expr, 1, INJECT \o FROM_PREVIOUS \o LPAR)
    THEN StripWrapper(expr, INJECT \o FROM_PREVIOUS)
    ELSE StripWrapper(expr, INJECT)

\* lines 246-254: the expression inside the wrappers
Unwrap(expression) ==
    StripWrapper(StripInject(EvaluateInner(expression, SearchEvaluate(expression, 1))),
                 EVALUATE)

\* re.findall(r'\b([a-zA-Z_][a-zA-Z0-9_]*)\b', expr): the maximal runs of word
\* characters that start with a letter or an underscore
Identifiers(expr) ==
    { Slice(expr, i, RunEnd(expr, i, WordChar)) :
        i \in { j \in 1..Len(expr) : /\ expr[j] \in IdStart
                                     /\ (j = 1 \/ expr[j - 1] \notin WordChar) } }

\* line 261: the names the missing-variable check lets through
KnownFunctions == { <<"i","n","t">>, <<"f","l","o","a","t">>, <<"r","o","u","n","d">>,
                    <<"a","b","s">>, <<"m","i","n">>, <<"m","a","x">> }

MissingVars(expr, previous_results) ==
    { v \in Identifiers(expr) : v \notin Keys(previous_results) /\ v \notin KnownFunctions }

\* lines 273-277: the text put in place of a variable
Literal(val) == IF IsNumber(val) THEN PyStr(val) ELSE <<"'">> \o PyStr(val) \o <<"'">>

\* lines 271-277: for var, value in previous_results.items(): replace
RECURSIVE SubstituteFrom(_, _, _)
SubstituteFrom(expr, previous_results, k) ==
    IF k > Len(previous_results) THEN expr
    ELSE SubstituteFrom(IF Contains(expr, previous_results[k].var)
                        THEN ReplaceAll(expr, previous_results[k].var,
                                        Literal(previous_results[k].val))
                        ELSE expr,
                        previous_results, k + 1)

Substitute(expr, previous_results) == SubstituteFrom(expr, previous_results, 1)

\* lines 298-308: a float is rounded, an exception gives 1
Coerce(result) ==
    IF result.t = "err" THEN MkInt(1)
    ELSE IF IsFloat(result) THEN MkInt(RoundHalfEven(result.n, result.d))
    ELSE result

\* lines 256-293 on the unwrapped expression expr: [missing, raw]; raw is the
\* value eval gives the substituted expression, Err when it raised or when a
\* variable is missing
Evaluated(expr, previous_results) ==
    IF MissingVars(expr, previous_results) # {}
    THEN [missing |-> TRUE, raw |-> Err]
    ELSE [missing |-> FALSE, raw |-> EvalText(Substitute(expr, previous_results))]

Evaluation(expression, previous_results) == Evaluated(Unwrap(expression), previous_results)

\* line 268 returns 1 for a missing variable, lines 295-308 the coerced value
ResultOfZero(ev) == IF ev.missing THEN MkInt(0) ELSE Coerce(ev.raw)
ResultOf(ev) == IF ev.missing THEN MkInt(1) ELSE Coerce(ev.raw)

_evaluate_injection(expression, previous_results) ==
    ResultOf(Evaluation(expression, previous_results))

(***************************************************************************)
(* _execute_sequential_queries: the injection loop of one step             *)
(***************************************************************************)
\* the end of the body (?:[^()]+|\([^()]*\))+\) scanned from p, 0 when the
\* body does not match; items counts the alternatives matched so far
RECURSIVE ScanBody(_, _, _), ScanGroup(_, _, _)
\* q the position after the characters of a parenthesised group
ScanGroup(s, q, items) ==
    IF q <= Len(s) /\ s[q] = ")" THEN ScanBody(s, q + 1, items + 1) ELSE 0

ScanBody(s, p, items) ==
    IF p > Len(s) THEN 0
    ELSE IF s[p] = ")" THEN (IF items >= 1 THEN p ELSE 0)
    ELSE IF s[p] = "("
    THEN ScanGroup(s, RunEnd(s, p + 1, {s[j] : j \in 1..Len(s)} \ {"(", ")"}) + 1, items)
    ELSE ScanBody(s, p + 1, items + 1)

\* the end of a match of the marker pattern that starts at i, 0 when none
MarkerEndAt(s, i) ==
    IF ~MatchAt(s, i, INJECT) THEN 0
    ELSE IF MatchAt(s, i + Len(INJECT), FROM_PREVIOUS \o LPAR)
    THEN ScanBody(s, i + Len(INJECT) + Len(FROM_PREVIOUS) + 1, 0)
    ELSE IF MatchAt(s, i + Len(INJECT), LPAR)
    THEN ScanBody(s, i + Len(INJECT) + 1, 0)
    ELSE 0

\* the match of the marker pattern that starts at i0 (0: no match)
MarkerAt(query, i0) ==
    IF i0 = 0 THEN [found |-> FALSE, text |-> << >>, at |-> 0]
    ELSE [found |-> TRUE, text |-> Slice(query, i0, MarkerEndAt(query, i0)), at |-> i0]

\* re.search(inject_pattern, query): [found, text] of the leftmost match
SearchMarker(query) ==
    MarkerAt(query, Least({i \in 1..Len(query) : MarkerEndAt(query, i) # 0}))

\* line 192: the least value a substituted integer may have
LimitFloorMissing(injected_int) == injected_int
LimitFloor(injected_int) == IF injected_int < 1 THEN 1 ELSE injected_int

\* lines 188-197: the text written in place of the marker
Replacement(injected_value) ==
    IF IsNumber(injected_value)
    THEN IntToStr(LimitFloor(IntRound(injected_value)))
    ELSE PyStr(injected_value)

\* what one pass of the loop records: the parameter, its evaluation ev, the
\* value returned by _evaluate_injection, the match and the text written
LogEntry(param_expr, ev, match, replacement) ==
    [expr |-> param_expr,
     missing |-> ev.missing,
     raw |-> ev.raw,
     value |-> ResultOf(ev),
     matched |-> match.found,
     original |-> match.text,
     at |-> match.at,
     replacement |-> IF match.found THEN replacement ELSE << >>]

\* lines 178-202: for param_expr in inject_params; gives the query to
\* dispatch and, per parameter, what was evaluated and written
RECURSIVE InjectFrom(_, _, _, _, _), InjectStep(_, _, _, _, _, _, _, _)
InjectStep(query, inject_params, previous_results, k, log, ev, match, replacement) ==
    InjectFrom(IF match.found THEN ReplaceFirst(query, match.text, replacement) ELSE query,
               inject_params, previous_results, k + 1,
               Append(log, LogEntry(inject_params[k], ev, match, replacement)))

InjectFrom(query, inject_params, previous_results, k, log) ==
    IF k > Len(inject_params) THEN [query |-> query, log |-> log]
    ELSE InjectStep(query, inject_params, previous_results, k, log,
                    Evaluation(inject_params[k], previous_results),
                    SearchMarker(query),
                    Replacement(_evaluate_injection(inject_params[k], previous_results)))

Inject(query, inject_params, previous_results) ==
    InjectFrom(query, inject_params, previous_results, 1, << >>)

(***************************************************************************)
(* Triplestore responses and the merge of a response into previous_results *)
(* A response is [rows, hasBoolean, boolean]; a row is a sequence of       *)
(* [var, raw] in the order of the row's columns.                           *)
(***************************************************************************)
Tabular(rows) == [rows |-> rows, hasBoolean |-> FALSE, boolean |-> FALSE]
Boolean(b) == [rows |-> << >>, hasBoolean |-> TRUE, boolean |-> b]
Col(var, raw) == [var |-> var, raw |-> raw]

\* lines 221-231: float(raw_value), int when whole, the text when it fails
Converted(raw_value, numeric_value) ==
    IF numeric_value.t = "err" THEN MkStr(raw_value)
    ELSE IF numeric_value.d = 1 THEN MkInt(numeric_value.n)
    ELSE numeric_value

Convert(raw_value) == Converted(raw_value, ParseFloat(raw_value))

\* lines 217-231: for var, value_obj in first_row.items()
RECURSIVE StoreRow(_, _, _)
StoreRow(previous_results, first_row, k) ==
    IF k > Len(first_row) THEN previous_results
    ELSE StoreRow(DictPut(previous_results, first_row[k].var, Convert(first_row[k].raw)),
                  first_row, k + 1)

BOOLEAN_KEY == <<"b","o","o","l","e","a","n">>

\* lines 210-237
MergeLastRow(previous_results, results) ==
    IF results.rows # << >>
    THEN StoreRow(previous_results, results.rows[Len(results.rows)], 1)
    ELSE IF results.hasBoolean
    THEN DictPut(previous_results, BOOLEAN_KEY, MkBool(results.boolean))
    ELSE previous_results
MergeClearing(previous_results, results) ==
    IF results.rows # << >> THEN StoreRow(previous_results, results.rows[1], 1)
    ELSE IF results.hasBoolean
    THEN DictPut(previous_results, BOOLEAN_KEY, MkBool(results.boolean))
    ELSE << >>
Merge(previous_results, results) ==
    IF results.rows # << >> THEN StoreRow(previous_results, results.rows[1], 1)
    ELSE IF results.hasBoolean
    THEN DictPut(previous_results, BOOLEAN_KEY, MkBool(results.boolean))
    ELSE previous_results

\* line 171: the step after step idx
StepAfterSkipping(idx) == idx + 2
StepAfter(idx) == idx + 1

(***************************************************************************)
(* Bounded inputs of the sequential executor                               *)
(***************************************************************************)
MaxTotal == 6        \* totals a count query returns: -1 .. MaxTotal

total == <<"t","o","t","a","l">>
label == <<"l","a","b","e","l">>
count == <<"c","o","u","n","t">>
n_ == <<"n">>
a_ == <<"a">>
CEIL == <<"c","e","i","l">>
SLASH == <<"/">>

Marker(e) == INJECT \o LPAR \o e \o RPAR
LIMIT_ == <<"L","I","M","I","T"," ">>
OFFSET_ == <<" ","O","F","F","S","E","T"," ">>
SELECT_ == <<"S","E","L","E","C","T"," ","?","x"," ">>

Step(query, inject_params) == [query |-> query, inject_params |-> inject_params]

CountStep == Step(<<"S","E","L","E","C","T"," ","?","t","o","t","a","l">>, << >>)
LimitStep(e) == Step(SELECT_ \o LIMIT_ \o Marker(e), <<Marker(e)>>)
LimitOffsetStep(e1, e2) ==
    Step(SELECT_ \o LIMIT_ \o Marker(e1) \o OFFSET_ \o Marker(e2), <<Marker(e1), Marker(e2)>>)

\* the expression e in the wrapper w: w(e), w(evaluate(e)), evaluate(w(e))
Wrapped(w, e) == w \o LPAR \o e \o RPAR
Wrappings(w, e) ==
    << Wrapped(w, e), Wrapped(w, Wrapped(EVALUATE, e)), Wrapped(EVALUATE, Wrapped(w, e)) >>
\* a step with the three wrappings of e as its markers
WrappedStep(w, e) ==
    Step(SELECT_ \o LIMIT_ \o Wrappings(w, e)[1] \o OFFSET_ \o Wrappings(w, e)[2]
             \o <<" ">> \o Wrappings(w, e)[3],
         Wrappings(w, e))
ROUND == <<"r","o","u","n","d">>
total_count == total \o <<"_","c","o","u","n","t">>
MinOf == <<"m","i","n","(","n",","," ","3",")">>

Plans ==
    { << >>,
      <<CountStep>>,
      <<LimitStep(total \o SLASH \o <<"4">>)>>,
      <<CountStep, LimitStep(total \o SLASH \o <<"4">>)>>,
      <<CountStep, LimitStep(total \o SLASH \o <<"2">>)>>,
      <<CountStep, LimitStep(total)>>,
      <<CountStep, LimitStep(<<"2","-">> \o total)>>,
      <<CountStep, LimitStep(label)>>,
      <<CountStep, LimitStep(count \o SLASH \o <<"2">>)>>,
      <<CountStep, LimitStep(total \o <<" ",">"," ","2">>)>>,
      <<CountStep, LimitStep(BOOLEAN_KEY)>>,
      <<CountStep, LimitOffsetStep(total \o SLASH \o <<"2">>, n_)>>,
      <<CountStep, CountStep, LimitStep(total \o SLASH \o <<"2">>)>>,
      <<CountStep, LimitStep(total \o SLASH)>>,
      <<CountStep, LimitStep(<<"4">> \o SLASH \o total), LimitStep(total \o SLASH \o <<"2">>)>>,
      <<CountStep, LimitStep(total \o SLASH \o <<"3">>)>>,
      <<CountStep, LimitStep(CEIL \o LPAR \o total \o SLASH \o <<"3">> \o RPAR)>>,
      <<CountStep, WrappedStep(INJECT, total \o SLASH \o <<"2">>)>>,
      <<CountStep, WrappedStep(INJECT \o FROM_PREVIOUS, total \o SLASH \o <<"2">>)>>,
      <<CountStep, WrappedStep(INJECT, Wrapped(ROUND, total \o SLASH \o <<"2">>))>>,
      <<CountStep, LimitStep(MinOf)>>,
      <<CountStep, LimitOffsetStep(Wrapped(ROUND, LPAR \o total \o RPAR \o SLASH \o <<"2">>), total)>>,
      <<CountStep, LimitStep(total_count \o SLASH \o <<"3">>)>> }

RawTexts == { IntToStr(k) : k \in (0 - 1)..MaxTotal }

Responses ==
    { Tabular(<< <<Col(total, raw)>> >>) : raw \in RawTexts }
    \cup { Tabular(<< <<Col(total, <<"2",".","5">>)>> >>),
           Tabular(<< <<Col(total, <<"0",".","4">>)>> >>),
           Tabular(<< <<Col(label, <<"a","b","c">>)>> >>),
           Tabular(<< <<Col(total, <<"5">>), Col(n_, <<"0">>)>>,
                      <<Col(total, <<"9">>), Col(n_, <<"3">>)>> >>),
           Tabular(<< <<Col(total, <<"1","0","8","8","2">>)>> >>),
           Tabular(<< <<Col(a_, <<"x">>), Col(total, <<"6">>)>> >>),
           Tabular(<< <<Col(n_, <<"5">>), Col(total, <<"6">>)>> >>),
           Tabular(<< <<Col(total, <<"5">>), Col(total_count, <<"9">>)>> >>),
           Tabular(<< <<Col(total_count, <<"9">>), Col(total, <<"5">>)>> >>),
           Tabular(<< <<Col(label, <<"a","'"," ","+"," ","'","b">>)>> >>),
           Tabular(<< >>),
           Boolean(TRUE),
           Boolean(FALSE) }

(***************************************************************************)
(* State                                                                   *)
(***************************************************************************)
VARIABLES
    queries,            \* the plan given to _execute_sequential_queries
    idx,                \* index of the step in progress (0-based)
    previous_results,   \* the bindings
    final_results,      \* the last response, None before the first
    xpc,                \* "idle" | "loop" | "await" | "returned" | "raised"
    dispatched,         \* history: what was sent to the triplestore
    received            \* history: the responses that came back

VARIABLES
    pc,                 \* where response_stream is suspended
    frames,             \* history: the frames yielded to the client
    cached_data,        \* what the cache lookup returned
    is_sequential,
    sparql_query,       \* "" | "SINGLE" | "JSON" (json.dumps(sparql_queries))
    sparql_queries,     \* the Sequential plan
    sparql_results,
    stores,             \* history: the calls of redis_client.cache_query
    request,            \* the NLQueryRequest
    lookups,            \* history: the keys of redis_client.get_cached_query
    cached_sparql,      \* cached_data["sparql_query"]
    raw_sparql_response,
    calls               \* history: the queries of line 485

VARIABLES
    mpc,                \* where _stream_with_timeout_messages is suspended
    upstream,           \* the chunk source (context_stream)
    read,               \* the pending stream_iter.__anext__() and its wait_for
    now,                \* loop.time()
    last_status_time,
    message_cycle,      \* position in THINKING_MESSAGES
    streams,            \* the multiplexers of concurrent requests, by stream
    served              \* history: the calls of /cache/stats and /queries/top

execVars == <<queries, idx, previous_results, final_results, xpc, dispatched, received>>
historyVars == <<request, lookups, cached_sparql, raw_sparql_response, calls>>
payloadVars == <<cached_data, is_sequential, sparql_query, sparql_queries, sparql_results,
                 stores, historyVars>>
pipeVars == <<pc, frames, payloadVars>>
muxVars == <<mpc, upstream, read, now, last_status_time, message_cycle, streams, served>>
vars == <<execVars, pipeVars, muxVars>>

None == [rows |-> << >>, hasBoolean |-> FALSE, boolean |-> FALSE, none |-> TRUE]

\* a chunk source nothing has been read from; ev/at: the item the source
\* delivers next and when, state: "open" | "finished" | "failed" |
\* "cancelled", lost: chunks it had under way when it was cancelled
NoUpstream == [produced |-> 0, ev |-> "none", at |-> 0, state |-> "open", lost |-> 0]

\* no read pending; abandoned counts the reads wait_for cancelled
NoRead == [pending |-> FALSE, deadline |-> 0, abandoned |-> 0]

\* a text of the cache: json.dumps(value), or a text json.loads does not read
json_dumps(value) == [json |-> TRUE, value |-> value, text |-> << >>]
NotJson(text) == [json |-> FALSE, value |-> << >>, text |-> text]

\* what ollama.generate_complete returned: the text, and the plan the plan
\* parser reads from it (none: << >>)
Generated(text, plan) == [state |-> "returned", text |-> text, plan |-> plan]
NoResponse == [state |-> "none", text |-> << >>, plan |-> << >>]
GenerateRaised == [state |-> "raised", text |-> << >>, plan |-> << >>]

\* the streams that may be open at the same time
Streams == {1, 2}

\* a multiplexer that has not been called: position, chunk source, pending
\* read, time of the last emission, cursor of its message cycle, and the
\* frames it has yielded
Unopened ==
    [mpc |-> "off", upstream |-> NoUpstream, read |-> NoRead, last_status_time |-> 0,
     message_cycle |-> 0, frames |-> << >>]

\* the request stream before it is started
Unstarted ==
    /\ streams = [s \in Streams |-> Unopened]
    /\ served = << >>
    /\ lookups = << >>
    /\ cached_sparql = NotJson(<< >>)
    /\ raw_sparql_response = NoResponse
    /\ calls = << >>
    /\ pc = "start"
    /\ frames = << >>
    /\ cached_data = "none"
    /\ is_sequential = FALSE
    /\ sparql_query = ""
    /\ sparql_queries = << >>
    /\ sparql_results = None
    /\ stores = << >>
    /\ mpc = "off"
    /\ upstream = NoUpstream
    /\ read = NoRead
    /\ now = 0
    /\ last_status_time = 0
    /\ message_cycle = 0

\* lines 168-169, on the plan qs
ExecEnter(qs) ==
    /\ queries' = qs
    /\ idx' = 0
    /\ previous_results' = << >>
    /\ final_results' = None
    /\ xpc' = "loop"
    /\ dispatched' = << >>
    /\ received' = << >>

\* the executor called on its own, on any plan
ExecInit ==
    /\ queries \in Plans
    /\ idx = 0
    /\ previous_results = << >>
    /\ final_results = None
    /\ xpc = "loop"
    /\ dispatched = << >>
    /\ received = << >>
    /\ request = [query |-> << >>, context |-> << >>]
    /\ Unstarted

\* what the triplestore is sent at step idx: the injected query, with the
\* bindings it was made from and the log of the injection loop
Sent(i, seen, inj) == [idx |-> i, query |-> inj.query, seen |-> seen, log |-> inj.log]

\* lines 171-208: inject into the step's query and send it
ExecDispatch ==
    /\ xpc = "loop"
    /\ idx < Len(queries)
    /\ dispatched' = Append(dispatched,
                             Sent(idx, previous_results,
                                  Inject(queries[idx + 1].query,
                                         queries[idx + 1].inject_params,
                                         previous_results)))
    /\ xpc' = "await"
    /\ UNCHANGED <<queries, idx, previous_results, final_results, received>>
    /\ UNCHANGED <<pipeVars, muxVars>>

\* lines 208-239: a response of the step, one of rs, comes back and is merged
ExecRespondFrom(rs) ==
    /\ xpc = "await"
    /\ \E results \in rs :
        /\ previous_results' = Merge(previous_results, results)
        /\ final_results' = results
        /\ received' = Append(received, results)
    /\ idx' = StepAfter(idx)
    /\ xpc' = "loop"
    /\ UNCHANGED <<queries, dispatched>>
    /\ UNCHANGED <<pipeVars, muxVars>>

ExecRespond == ExecRespondFrom(Responses)

\* line 208: virtuoso.execute_query raises
ExecFail ==
    /\ xpc = "await"
    /\ xpc' = "raised"
    /\ UNCHANGED <<queries, idx, previous_results, final_results, dispatched, received>>
    /\ UNCHANGED <<pipeVars, muxVars>>

\* line 241
ExecReturn ==
    /\ xpc = "loop"
    /\ idx >= Len(queries)
    /\ xpc' = "returned"
    /\ UNCHANGED <<queries, idx, previous_results, final_results, dispatched, received>>
    /\ UNCHANGED <<pipeVars, muxVars>>

ExecNext == ExecDispatch \/ ExecRespond \/ ExecFail \/ ExecReturn

SpecExec == ExecInit /\ [][ExecNext]_vars

\* every text the executor evaluated is python the model defines
NoUnmodelled ==
    \A k \in 1..Len(dispatched) : \A j \in 1..Len(dispatched[k].log) :
        /\ dispatched[k].log[j].raw.t # "unm"
        /\ dispatched[k].log[j].value.t # "unm"

(***************************************************************************)
(* response_stream: the request pipeline.  One action per stretch of code  *)
(* between two suspension points (an await, or a yield the client may not  *)
(* come back from).                                                        *)
(***************************************************************************)
MaxChunks == 2       \* chunks the answer stream may produce

\* timeout_seconds=300.0 at line 544, in units of 150 s
timeout_seconds == 2

\* how long the answer stream takes to produce its next item: no time, one
\* stall window, two stall windows and a bit (the 650 s for 300 s of S5)
Delays == {0, timeout_seconds, 2 * timeout_seconds + 1}

\* len(THINKING_MESSAGES)
NumThinking == 8

\* the plans and triplestore responses of a request
SeqPlans == { <<CountStep, LimitStep(total \o SLASH \o <<"2">>)>> }
SomeRow == Tabular(<< <<Col(total, <<"4">>)>> >>)
PipeResponses == { SomeRow, Tabular(<< >>), Boolean(TRUE) }

\* python: str.lower() and str.strip()
LowerLetters == <<"a","b","c","d","e","f","g","h","i","j","k","l","m",
                  "n","o","p","q","r","s","t","u","v","w","x","y","z">>
UpperLetters == <<"A","B","C","D","E","F","G","H","I","J","K","L","M",
                  "N","O","P","Q","R","S","T","U","V","W","X","Y","Z">>
ToLower(c) ==
    IF c \in Upper THEN LowerLetters[CHOOSE i \in 1..26 : UpperLetters[i] = c] ELSE c
lower(s) == [i \in 1..Len(s) |-> ToLower(s[i])]

Whitespace == {" ", "\t", "\n", "\r"}
RECURSIVE rstrip(_)
rstrip(s) ==
    IF s # << >> /\ s[Len(s)] \in Whitespace THEN rstrip(Slice(s, 1, Len(s) - 1)) ELSE s
strip(s) == rstrip(Slice(s, RunEnd(s, 1, Whitespace) + 1, Len(s)))

\* the request: NLQueryRequest(query, context)
NLQueryRequest(query, context) == [query |-> query, context |-> context]
Requests ==
    { NLQueryRequest(<<" ","T","o","p"," ">>, << >>),
      NLQueryRequest(<<"t","o","p","\n">>, <<"I","n"," ">>) }

\* lines 371-373
UserQuery(req) ==
    IF req.context # << >>
    THEN req.context \o <<"\n","\n">> \o req.query
    ELSE req.query

\* line 376
LowQueryAsTyped(req) == UserQuery(req)
LowQuery(req) == strip(lower(UserQuery(req)))

(***************************************************************************)
(* _parse_cached_sequential_sparql: the reader of the old cache format     *)
(***************************************************************************)
DASHES == <<"-","-","-">>
QUERY_ == DASHES \o <<"q","u","e","r","y">>
SPLIT_ == DASHES \o <<"s","p","l","i","t">>
INJECT_OPEN == INJECT \o LPAR

\* the first "-" of s at or after i, 0 when there is none
FirstDash(s, i) == Least({j \in i..Len(s) : s[j] = "-"})

\* re ---query \d+[^-]*--- at position i of s: the position of its last
\* character, 0 when it does not match there.  [^-]* stops at the first "-",
\* where the closing --- has to be.
QueryMarkEndAt(s, i) ==
    IF /\ MatchAt(s, i, QUERY_ \o <<" ">>)
       /\ i + 9 <= Len(s)
       /\ s[i + 9] \in Digit
       /\ MatchAt(s, FirstDash(s, i + 10), DASHES)
    THEN FirstDash(s, i + 10) + 2
    ELSE 0

\* the first match of the mark at or after from, 0 when there is none
NextQueryMark(s, from) == Least({i \in from..Len(s) : QueryMarkEndAt(s, i) # 0})

\* line 145, re.split(...)[1:]: the texts after each mark, up to the next
\* mark; from is the position after a mark, i the next mark (0: none)
RECURSIVE PartsFrom(_, _, _)
PartsFrom(s, from, i) ==
    IF i = 0 THEN <<Slice(s, from, Len(s))>>
    ELSE <<Slice(s, from, i - 1)>>
         \o PartsFrom(s, QueryMarkEndAt(s, i) + 1,
                      NextQueryMark(s, QueryMarkEndAt(s, i) + 1))

PartsAfter(s, i) ==
    IF i = 0 THEN << >>
    ELSE PartsFrom(s, QueryMarkEndAt(s, i) + 1, NextQueryMark(s, QueryMarkEndAt(s, i) + 1))

\* re INJECT\([^)]+\) at position i of s: the position of its last
\* character, 0 when it does not match there
InjectEndAt(s, i) ==
    IF MatchAt(s, i, INJECT_OPEN) /\ i + 7 <= Len(s) /\ s[i + 7] # ")"
    THEN Least({j \in (i + 8)..Len(s) : s[j] = ")"})
    ELSE 0

NextInject(s, from) == Least({i \in from..Len(s) : InjectEndAt(s, i) # 0})

\* lines 153-154, re.findall: the matches left to right, i the next one
RECURSIVE FindAllInject(_, _)
FindAllInject(s, i) ==
    IF i = 0 THEN << >>
    ELSE <<Slice(s, i, InjectEndAt(s, i))>>
         \o FindAllInject(s, NextInject(s, InjectEndAt(s, i) + 1))

\* lines 148-159, on the stripped part
ParsedPart(part) ==
    IF part = << >> \/ MatchAt(part, 1, DASHES) THEN << >>
    ELSE <<Step(part, FindAllInject(part, NextInject(part, 1)))>>

\* lines 147-159
RECURSIVE ParsedParts(_, _)
ParsedParts(parts, k) ==
    IF k > Len(parts) THEN << >>
    ELSE ParsedPart(strip(parts[k])) \o ParsedParts(parts, k + 1)

_parse_cached_sequential_sparql(sparql_text) ==
    ParsedParts(PartsAfter(sparql_text, NextQueryMark(sparql_text, 1)), 1)

\* a frame of kind k yielded at time now; i numbers chunks and heartbeats
Frame(k, i) == [k |-> k, i |-> i, t |-> now]
Status(k) == Frame(k, 0)

\* yield: the status frame k follows the frames frs
AnnounceFirst(frs, k) == <<Status(k)>> \o frs
Announce(frs, k) == frs \o <<Status(k)>>

\* lines 452-456 and 488-492
ResultCountOfRows(results) == Len(results.rows)
ResultCount(results) ==
    IF results.rows # << >> THEN Len(results.rows)
    ELSE IF results.hasBoolean THEN 1
    ELSE 0

\* lines 461-468 and 497-504: the payload is cached unless result_count == 0
ShouldStoreAlways(result_count) == TRUE
ShouldStoreNever(result_count) == FALSE
ShouldStore(result_count) == result_count # 0

\* lines 467, 519: json.dumps(sparql_queries), the structured list; "LEGACY"
\* stands for the plan written with ---query N--- separators
SerializeLegacy(qs) == "LEGACY"
Serialize(qs) == "JSON"

\* a call redis_client.cache_query(nl_query, sparql_query), after at frames
CacheQuery(payload, plan) == [sparql_query |-> payload, plan |-> plan, at |-> Len(frames)]

\* except Exception (lines 131, 437, 474, 506, 547, 556) catches kind
IsExceptionOrBase(kind) == TRUE
IsException(kind) == kind \notin {"CancelledError", "GeneratorExit"}

\* lines 443-447, 479-482, 512-516: stage 2 starts on the payload
Stage2(frs, seq, q, qs) ==
    /\ is_sequential' = seq
    /\ sparql_query' = q
    /\ sparql_queries' = qs
    /\ IF seq
       THEN /\ frames' = Announce(frs, "executing_query")
            /\ pc' = "exec_seq"
            /\ ExecEnter(qs)
       ELSE /\ UNCHANGED execVars
            /\ IF q # ""
               THEN /\ frames' = Announce(frs, "executing_query")
                    /\ pc' = "exec_single"
               ELSE /\ frames' = Announce(Announce(frs, "no_data"), "data_done")
                    /\ pc' = "done"
    /\ UNCHANGED <<sparql_results, stores, muxVars>>

\* lines 518-526: stage 3 is announced
Stage3(frs, seq, results) ==
    /\ is_sequential' = seq
    /\ sparql_query' = IF seq /\ sparql_queries # << >>
                       THEN Serialize(sparql_queries) ELSE sparql_query
    /\ sparql_results' = results
    /\ frames' = Announce(frs, "processing_results")
    /\ pc' = "contextualize"
    /\ UNCHANGED <<cached_data, sparql_queries, execVars, muxVars>>

\* lines 470-472, 508-510: no data, done
NoData(results) ==
    /\ frames' = Announce(Announce(frames, "no_data"), "data_done")
    /\ pc' = "done"
    /\ sparql_results' = results
    /\ UNCHANGED <<cached_data, is_sequential, sparql_query, sparql_queries, execVars, muxVars>>

\* lines 556-560: the outer handler
UnexpectedWithoutDone ==
    /\ frames' = Announce(frames, "Error")
    /\ pc' = "done"
Unexpected ==
    /\ frames' = Announce(Announce(frames, "Error"), "data_done")
    /\ pc' = "done"

Init ==
    /\ queries = << >>
    /\ idx = 0
    /\ previous_results = << >>
    /\ final_results = None
    /\ xpc = "idle"
    /\ dispatched = << >>
    /\ received = << >>
    /\ request \in Requests
    /\ Unstarted

\* line 363
Begin ==
    /\ pc = "start"
    /\ frames' = Announce(frames, "processing_query")
    /\ pc' = "lookup"
    /\ UNCHANGED <<payloadVars, execVars, muxVars>>

\* a plan in the old cache format, steps k.. of it
RECURSIVE LegacyFrom(_, _)
LegacyFrom(plan, k) ==
    IF k > Len(plan) THEN << >>
    ELSE QUERY_ \o <<" ">> \o NatToStr(k) \o DASHES \o <<"\n">>
         \o plan[k].query \o <<"\n">> \o LegacyFrom(plan, k + 1)

\* the plans old entries hold: markers with a plain expression, with a
\* function call, and in the INJECT_FROM_PREVIOUS form
LegacyPlans ==
    SeqPlans
    \cup { <<CountStep, LimitStep(Wrapped(ROUND, total \o SLASH \o <<"2">>))>>,
           <<CountStep,
             Step(SELECT_ \o LIMIT_ \o Wrapped(INJECT \o FROM_PREVIOUS, total \o SLASH \o <<"2">>),
                  <<Wrapped(INJECT \o FROM_PREVIOUS, total \o SLASH \o <<"2">>)>>)>> }

\* the texts the cache may hold for the key: a plan in either format, an
\* empty list, a stale text with a separator and no step, a single query
CachedTexts ==
    { json_dumps(qs) : qs \in SeqPlans }
    \cup { NotJson(LegacyFrom(qs, 1)) : qs \in LegacyPlans }
    \cup { json_dumps(<< >>),
           NotJson(SPLIT_ \o <<"\n">> \o CountStep.query),
           NotJson(CountStep.query) }

\* lines 389-408: the payload read from the cached text
Payload(seq, qs) == [is_sequential |-> seq, sparql_queries |-> qs]
FromCache(cached) ==
    IF cached.json
    THEN IF Len(cached.value) > 0 THEN Payload(TRUE, cached.value)
         ELSE Payload(FALSE, << >>)
    ELSE IF Contains(cached.text, SPLIT_) \/ Contains(cached.text, QUERY_)
         THEN Payload(TRUE, _parse_cached_sequential_sparql(cached.text))
         ELSE Payload(FALSE, << >>)

\* the branch of lines 389-408 taken for the cached text
Kind(cached) ==
    IF cached.json THEN (IF Len(cached.value) > 0 THEN "json_list" ELSE "single")
    ELSE IF ~FromCache(cached).is_sequential THEN "single"
    ELSE IF FromCache(cached).sparql_queries = << >> THEN "legacy_empty"
    ELSE "legacy"

\* the words of the SPARQL forms
SELECT_WORD == <<"S","E","L","E","C","T">>
ASK_WORD == <<"A","S","K">>
CONSTRUCT_WORD == <<"C","O","N","S","T","R","U","C","T">>
DESCRIBE_WORD == <<"D","E","S","C","R","I","B","E">>

\* what the language model may answer: a plan, a SELECT query in prose, an
\* ASK query, a CONSTRUCT query, nothing, prose without a query
LMResponses ==
    { Generated(CountStep.query \o <<"\n">> \o qs[2].query, qs) : qs \in SeqPlans }
    \cup { Generated(<<"T","r","y",":"," ">> \o CountStep.query, << >>),
           Generated(ASK_WORD \o <<" ","{","?","s"," ","?","p"," ","?","o","}">>, << >>),
           Generated(CONSTRUCT_WORD \o <<" ","{","?","s"," ","?","p"," ","?","o","}">>, << >>),
           Generated(<< >>, << >>),
           Generated(<<"N","o"," ","i","d","e","a">>, << >>) }

\* ollama.detect_and_parse_sparql: (is_sequential, sparql_content)
detect_and_parse_sparql(raw) ==
    IF raw.plan # << >> THEN Payload(TRUE, raw.plan) ELSE Payload(FALSE, << >>)

\* line 426
HasSelectAlways(text) == TRUE
HasSelect(text) == Contains(text, SELECT_WORD)

\* line 377: redis_client.get_cached_query(low_query) is called
GetCachedQuery == lookups' = Append(lookups, LowQuery(request))

\* lines 377-411: the cache answers; a hit goes on to stage 2
Lookup ==
    /\ pc = "lookup"
    /\ GetCachedQuery
    /\ UNCHANGED <<request, raw_sparql_response, calls>>
    /\ \/ /\ cached_data' = "miss"
          /\ frames' = Announce(frames, "generating_sparql")
          /\ pc' = "generate"
          /\ UNCHANGED <<cached_sparql, is_sequential, sparql_query, sparql_queries,
                         sparql_results, stores, execVars, muxVars>>
       \/ \E cached \in CachedTexts :
            /\ cached_data' = Kind(cached)
            /\ cached_sparql' = cached
            /\ Stage2(frames, FromCache(cached).is_sequential,
                      IF FromCache(cached).is_sequential THEN "" ELSE "SINGLE",
                      FromCache(cached).sparql_queries)

\* line 377 raises
LookupFail ==
    /\ pc = "lookup"
    /\ GetCachedQuery
    /\ Unexpected
    /\ UNCHANGED <<cached_data, is_sequential, sparql_query, sparql_queries, sparql_results,
                   stores, request, cached_sparql, raw_sparql_response, calls>>
    /\ UNCHANGED <<execVars, muxVars>>

\* lines 424-435: the payload made of the response raw
Parsed(raw, parsed) ==
    Stage2(frames, parsed.is_sequential,
           IF parsed.is_sequential THEN "" ELSE "SINGLE", parsed.sparql_queries)

\* lines 413-447: the language model answers, or the call raises; stage 2
\* starts
Generate ==
    /\ pc = "generate"
    /\ UNCHANGED <<cached_data, request, lookups, cached_sparql, calls>>
    /\ \/ \E raw \in LMResponses :
            /\ raw_sparql_response' = raw
            /\ IF HasSelect(raw.text)
               THEN Parsed(raw, detect_and_parse_sparql(raw))
               ELSE Stage2(frames, FALSE, "", sparql_queries)
       \/ /\ raw_sparql_response' = GenerateRaised
          /\ Stage2(frames, FALSE, "", << >>)

\* line 449: _execute_sequential_queries runs
SeqStep ==
    /\ pc = "exec_seq"
    /\ ExecDispatch \/ ExecRespondFrom(PipeResponses) \/ ExecFail \/ ExecReturn

\* lines 449-472: the executor returned
SeqReturned ==
    /\ pc = "exec_seq"
    /\ xpc = "returned"
    /\ UNCHANGED historyVars
    /\ IF final_results = None
       THEN NoData(None) /\ UNCHANGED stores
       ELSE IF ShouldStore(ResultCount(final_results))
       THEN /\ stores' = Append(stores, CacheQuery(Serialize(sparql_queries), sparql_queries))
            /\ \/ Stage3(frames, TRUE, final_results)
               \/ Stage3(frames, FALSE, None)      \* cache_query raises: line 474
       ELSE /\ Stage3(Announce(frames, "no_results"), TRUE, final_results)
            /\ UNCHANGED stores

\* lines 474-477: the executor raised
SeqRaisedStoring ==
    /\ pc = "exec_seq"
    /\ xpc = "raised"
    /\ Stage3(frames, FALSE, None)
    /\ stores' = Append(stores, CacheQuery(Serialize(sparql_queries), sparql_queries))
    /\ UNCHANGED historyVars
SeqRaised ==
    /\ pc = "exec_seq"
    /\ xpc = "raised"
    /\ Stage3(frames, FALSE, None)
    /\ UNCHANGED <<stores, historyVars>>

\* line 485: virtuoso.execute_query(sparql_query) is called
ExecuteQuery ==
    /\ calls' = Append(calls, sparql_query)
    /\ UNCHANGED <<request, lookups, cached_sparql, raw_sparql_response>>

\* lines 485-504: the triplestore answers a Single query
SingleRespond ==
    /\ pc = "exec_single"
    /\ ExecuteQuery
    /\ \E results \in PipeResponses :
        IF ShouldStore(ResultCount(results))
        THEN /\ stores' = Append(stores, CacheQuery(sparql_query, << >>))
             /\ \/ Stage3(frames, FALSE, results)
                \/ NoData(results)                  \* cache_query raises: line 506
        ELSE /\ Stage3(Announce(frames, "no_results"), FALSE, results)
             /\ UNCHANGED stores

\* lines 485, 506-510: virtuoso.execute_query raises
SingleFail ==
    /\ pc = "exec_single"
    /\ ExecuteQuery
    /\ NoData(sparql_results)
    /\ UNCHANGED stores

(***************************************************************************)
(* _stream_with_timeout_messages over the answer stream.  The clock moves  *)
(* while the multiplexer waits.  The answer stream is what                 *)
(* ollama.contextualize_answer returns: a lazy sequence of chunks that     *)
(* ends, or fails, after at most MaxChunks chunks.                         *)
(***************************************************************************)
\* the source u asked for its next item at time now: a finished source
\* answers at once, an item under way stays under way, otherwise the source
\* takes d to produce e
Scheduled(u, e, d) ==
    IF u.state # "open" THEN [u EXCEPT !.ev = "end", !.at = now]
    ELSE IF u.ev # "none" THEN u
    ELSE [u EXCEPT !.ev = IF e = "chunk" /\ u.produced >= MaxChunks THEN "end" ELSE e,
                   !.at = now + d]

\* the source u when the read it is serving is cancelled: an asynchronous
\* generator is finalised by the CancelledError thrown into it (closes), any
\* other iterator goes on
Interrupted(u, closes) ==
    IF closes /\ u.state = "open"
    THEN [u EXCEPT !.state = "cancelled", !.ev = "none",
                   !.lost = IF u.ev = "chunk" THEN 1 ELSE 0]
    ELSE u

\* lines 101-107: wait_for(stream_iter.__anext__(), timeout) starts
StartRead(u, r) ==
    /\ read' = [r EXCEPT !.pending = TRUE, !.deadline = now + timeout_seconds]
    /\ \E e \in {"chunk", "end", "Exception", "TimeoutError"}, d \in Delays :
          upstream' = Scheduled(u, e, d)
    /\ mpc' = "wait"

\* lines 112-119: except asyncio.TimeoutError
OnTimeout(u, r) ==
    IF now - last_status_time >= timeout_seconds
    THEN /\ frames' = Append(frames, Frame("thinking", message_cycle))
         /\ message_cycle' = (message_cycle + 1) % NumThinking
         /\ last_status_time' = now
         /\ mpc' = "yield"
         /\ upstream' = u
         /\ read' = r
    ELSE /\ StartRead(u, r)
         /\ UNCHANGED <<frames, message_cycle, last_status_time>>

\* lines 547-554: the handler around the answer stream, then the completion
\* signal
ErrorDone ==
    /\ frames' = Announce(Announce(frames, "Error"), "data_done")
    /\ pc' = "done"

\* lines 528-544: the answer stream is made and the multiplexer started on
\* it, or making it raises
Contextualize ==
    /\ pc = "contextualize"
    /\ \/ /\ ErrorDone
          /\ UNCHANGED muxVars
       \/ /\ pc' = "stream"
          /\ message_cycle' = 0
          /\ last_status_time' = now
          /\ StartRead(NoUpstream, NoRead)
          /\ UNCHANGED <<frames, now, streams, served>>
    /\ UNCHANGED <<payloadVars, execVars>>

\* time passes while nothing the multiplexer waits for is due
MuxTick ==
    /\ mpc = "wait"
    /\ now < read.deadline
    /\ now < upstream.at
    /\ now' = now + 1
    /\ UNCHANGED <<mpc, upstream, read, last_status_time, message_cycle, streams, served,
                   pipeVars, execVars>>

\* lines 104-110, 121-124, 131-136: the read completes before its timeout.
\* The timeout was armed before the source was resumed, so at equal times
\* the timeout is first.
MuxReceive ==
    /\ mpc = "wait"
    /\ upstream.at <= now
    /\ now < read.deadline
    /\ CASE upstream.ev = "chunk" ->
                /\ last_status_time' = now
                /\ frames' = Append(frames, Frame("chunk", upstream.produced + 1))
                /\ upstream' = [upstream EXCEPT !.produced = @ + 1, !.ev = "none"]
                /\ read' = [read EXCEPT !.pending = FALSE]
                /\ mpc' = "yield"
                /\ UNCHANGED <<pc, message_cycle>>
         [] upstream.ev = "end" ->
                /\ frames' = Announce(frames, "data_done")   \* line 554
                /\ upstream' = [upstream EXCEPT !.state = IF @ = "open" THEN "finished" ELSE @]
                /\ read' = [read EXCEPT !.pending = FALSE]
                /\ mpc' = "ended"
                /\ pc' = "done"
                /\ UNCHANGED <<last_status_time, message_cycle>>
         [] upstream.ev = "Exception" ->
                /\ frames' = Append(frames, Status("error"))
                /\ upstream' = [upstream EXCEPT !.state = "failed"]
                /\ read' = [read EXCEPT !.pending = FALSE]
                /\ mpc' = "yield_error"
                /\ UNCHANGED <<pc, last_status_time, message_cycle>>
         [] upstream.ev = "TimeoutError" ->
                /\ OnTimeout([upstream EXCEPT !.state = "failed", !.ev = "none"],
                             [read EXCEPT !.pending = FALSE])
                /\ UNCHANGED pc
    /\ UNCHANGED <<now, streams, served, payloadVars, execVars>>

\* lines 104-107, 112-119: the timeout of wait_for is due; wait_for cancels
\* the read and raises TimeoutError
MuxTimeout ==
    /\ mpc = "wait"
    /\ now >= read.deadline
    /\ \E closes \in BOOLEAN :
          OnTimeout(Interrupted(upstream, closes),
                    [read EXCEPT !.pending = FALSE, !.abandoned = @ + 1])
    /\ UNCHANGED <<now, streams, served, pc, payloadVars, execVars>>

\* the consumer asks for the next item: after a chunk or a heartbeat the
\* loop starts the next read (lines 101-107); after the error frame the
\* multiplexer is over and line 554 follows
MuxResume ==
    /\ mpc \in {"yield", "yield_error"}
    /\ IF mpc = "yield"
       THEN /\ StartRead(upstream, read)
            /\ UNCHANGED <<pc, frames>>
       ELSE /\ mpc' = "ended"
            /\ frames' = Announce(frames, "data_done")
            /\ pc' = "done"
            /\ UNCHANGED <<upstream, read>>
    /\ UNCHANGED <<now, streams, served, last_status_time, message_cycle, payloadVars, execVars>>

\* lines 126-129 and 547-560: an exception of the given kind leaves the
\* multiplexer; response_stream handles it if except Exception catches it
Raised(kind) ==
    /\ mpc' = "cancelled"
    /\ IF IsException(kind)
       THEN ErrorDone
       ELSE /\ pc' = "cancelled"
            /\ UNCHANGED frames
    /\ UNCHANGED <<now, streams, served, last_status_time, message_cycle, payloadVars, execVars>>

\* the client disconnects while the multiplexer waits: CancelledError is
\* raised in wait_for, which cancels the read
CancelAtWait ==
    /\ mpc = "wait"
    /\ \E closes \in BOOLEAN : upstream' = Interrupted(upstream, closes)
    /\ read' = [read EXCEPT !.pending = FALSE]
    /\ Raised("CancelledError")

\* the client disconnects while a frame is being sent: the generators are
\* closed at their yield
CancelAtYield ==
    /\ mpc \in {"yield", "yield_error"}
    /\ UNCHANGED <<upstream, read>>
    /\ Raised("GeneratorExit")

Next ==
    \/ Begin \/ Lookup \/ LookupFail \/ Generate
    \/ SeqStep \/ SeqReturned \/ SeqRaised
    \/ SingleRespond \/ SingleFail
    \/ Contextualize
    \/ MuxTick \/ MuxReceive \/ MuxTimeout \/ MuxResume
    \/ CancelAtWait \/ CancelAtYield

Spec == Init /\ [][Next]_vars

(***************************************************************************)
(* Properties of the sequential executor (SpecExec)                        *)
(***************************************************************************)
LogEntries == { <<k, j>> \in (1..Len(dispatched)) \X (1..3) : j <= Len(dispatched[k].log) }
Entry(kj) == dispatched[kj[1]].log[kj[2]]

\* the expression evaluated to a number below 1, or names a variable that
\* is not bound
Underflows(e) == e.missing \/ (IsNumber(e.raw) /\ BelowOne(e.raw))

\* C1 (clamping): whenever a marker's expression evaluates to a number below
\* 1 or names an unbound variable, the text written in place of the marker
\* is exactly "1"; a step whose only marker is LIMIT INJECT(..) is then
\* dispatched as LIMIT 1, and the executor does not raise on it.
C1_Clamping ==
    \A kj \in LogEntries :
        (Entry(kj).matched /\ Underflows(Entry(kj))) =>
            /\ Entry(kj).replacement = <<"1">>
            /\ (Len(dispatched[kj[1]].log) = 1 =>
                    dispatched[kj[1]].query = SELECT_ \o LIMIT_ \o <<"1">>)

\* S4: total = 0 and LIMIT INJECT(total/4) has been dispatched as LIMIT 1
C1_Witness ==
    \E k \in 1..Len(dispatched) :
        /\ dispatched[k].seen = <<[var |-> total, val |-> MkInt(0)]>>
        /\ queries[k] = LimitStep(total \o SLASH \o <<"4">>)
        /\ dispatched[k].log[1].raw = MkFloat(0, 1)
        /\ dispatched[k].query = SELECT_ \o LIMIT_ \o <<"1">>

\* C2 (type discipline): every text written in place of a marker is a
\* decimal integer literal >= 1.
C2_TypeDiscipline ==
    \A kj \in LogEntries :
        Entry(kj).matched =>
            /\ IsDigits(Entry(kj).replacement)
            /\ DigitsToNat(Entry(kj).replacement) >= 1

\* the responses merged before the k-th dispatch
RECURSIVE MergeAll(_, _)
MergeAll(rs, k) == IF k = 0 THEN << >> ELSE Merge(MergeAll(rs, k - 1), rs[k])

\* C3 (order preservation): queries are dispatched one per step in plan
\* order, step k only after the response of step k-1 was received and merged,
\* with its markers evaluated on the bindings of all earlier responses; a
\* plan that returns has dispatched exactly one query per step.
C3_OrderPreservation ==
    /\ Len(dispatched) - Len(received) \in {0, 1}
    /\ \A k \in 1..Len(dispatched) :
        /\ dispatched[k].idx = k - 1
        /\ dispatched[k].seen = MergeAll(received, k - 1)
        /\ dispatched[k].query =
              Inject(queries[k].query, queries[k].inject_params,
                     MergeAll(received, k - 1)).query
    /\ xpc = "returned" =>
          /\ Len(dispatched) = Len(queries)
          /\ Len(received) = Len(queries)

\* a three-step plan has returned and its last step saw bindings of two
\* earlier responses
C3_Witness ==
    /\ xpc = "returned"
    /\ Len(queries) = 3
    /\ Len(dispatched) = 3
    /\ received[1] # received[2]
    /\ dispatched[3].seen = Merge(Merge(<< >>, received[1]), received[2])
    /\ dispatched[3].seen # << >>

(***************************************************************************)
(* Properties of the request pipeline and the multiplexer (Spec)           *)
(***************************************************************************)
\* stage 2 is over
Executed == pc \notin {"start", "lookup", "generate", "exec_seq", "exec_single"}

\* every step of the Sequential plan returned from the triplestore
AllStepsReturned == xpc = "returned" /\ Len(received) = Len(queries)

\* the Single query returned from the triplestore
SingleReturned == xpc = "idle" /\ sparql_results # None

\* the calls of the cache store made for payload
StoreCalls(payload) == {i \in 1..Len(stores) : stores[i].sparql_query = payload}

Positions(k) == {i \in 1..Len(frames) : frames[i].k = k}

\* the store call i was made before processing_results and before any chunk
BeforeAnswer(i) ==
    \A j \in 1..Len(frames) :
        frames[j].k \in {"processing_results", "chunk"} => stores[i].at < j

\* C4 (cache write-on-success, as stated): a Sequential plan is stored if and
\* only if every step returned without transport error: never before the
\* whole plan executed, and always once it has.
C4_WriteOnSuccess ==
    /\ StoreCalls("JSON") # {} => AllStepsReturned
    /\ (Executed /\ AllStepsReturned) => StoreCalls("JSON") # {}

\* C4 (amended): the cache store is called for a Sequential plan if and only
\* if every step returned without transport error and the last response is
\* not empty (it has a row or a boolean); it is called once, with the plan
\* that ran, and never before the whole plan executed.
C4_WriteOnNonEmptySuccess ==
    /\ StoreCalls("JSON") # {} =>
          /\ AllStepsReturned
          /\ ResultCount(final_results) > 0
          /\ Cardinality(StoreCalls("JSON")) = 1
          /\ \A i \in StoreCalls("JSON") : stores[i].plan = queries
    /\ (Executed /\ AllStepsReturned /\ ResultCount(final_results) > 0) =>
          StoreCalls("JSON") # {}

\* a generated two-step plan ran, returned a row and was stored
C4_Witness ==
    /\ cached_data = "miss"
    /\ pc = "contextualize"
    /\ Len(received) = 2
    /\ received[2] = SomeRow
    /\ StoreCalls("JSON") = {1}
    /\ stores[1].plan = queries

\* C5 (cache store on a miss, as stated): on a cache miss, once the generated
\* payload has executed without transport error, the store has been called
\* for that payload, before processing_results and before any chunk.
C5_StoreOnMiss ==
    (cached_data = "miss" /\ Executed) =>
        /\ AllStepsReturned =>
              \E i \in StoreCalls("JSON") : BeforeAnswer(i)
        /\ SingleReturned =>
              \E i \in StoreCalls("SINGLE") : BeforeAnswer(i)

\* C5 (amended): on a cache miss, once the generated payload has executed
\* without transport error and its (last) response is not empty, the store
\* has been called for that payload, before processing_results and before
\* any chunk.
C5_StoreOnNonEmptyMiss ==
    (cached_data = "miss" /\ Executed) =>
        /\ (AllStepsReturned /\ ResultCount(final_results) > 0) =>
              \E i \in StoreCalls("JSON") : BeforeAnswer(i)
        /\ (SingleReturned /\ ResultCount(sparql_results) > 0) =>
              \E i \in StoreCalls("SINGLE") : BeforeAnswer(i)

\* a generated Single query returned a boolean, was stored, and the answer
\* has begun
C5_Witness ==
    /\ cached_data = "miss"
    /\ sparql_results = Boolean(TRUE)
    /\ StoreCalls("SINGLE") = {1}
    /\ stores[1].at = 3
    /\ Positions("chunk") # {}

\* the status frames of the orchestrator
IsStageStatus(f) ==
    f.k \in {"processing_query", "generating_sparql", "executing_query", "no_results",
             "processing_results"}

\* the execution returned an empty result set
EmptyResult ==
    \/ AllStepsReturned /\ final_results # None /\ ResultCount(final_results) = 0
    \/ SingleReturned /\ ResultCount(sparql_results) = 0

\* the status frames of a request that reaches the contextualize stage
StageOrder ==
    <<"processing_query">>
    \o (IF cached_data = "miss" THEN <<"generating_sparql">> ELSE << >>)
    \o <<"executing_query">>
    \o (IF EmptyResult THEN <<"no_results">> ELSE << >>)
    \o <<"processing_results">>

\* C6 (frame discipline): in a stream that reaches the contextualize stage
\* the orchestrator's status frames are, in this order, processing,
\* generating_sparql (on a miss only), executing_query, no_results (on an
\* empty result set only), processing_results; every chunk comes after
\* processing_results; data: [DONE] comes once, after all of them.
C6_FrameDiscipline ==
    Positions("processing_results") # {} =>
        /\ [i \in 1..Len(SelectSeq(frames, IsStageStatus)) |->
                SelectSeq(frames, IsStageStatus)[i].k] = StageOrder
        /\ \A i \in Positions("chunk") \cup Positions("thinking") \cup Positions("error") :
              \A j \in Positions("processing_results") : j < i
        /\ Positions("data_done") \subseteq {Len(frames)}
        /\ pc = "done" => Positions("data_done") = {Len(frames)}

\* a miss with an empty result set has streamed two chunks and is done
C6_Witness ==
    /\ pc = "done"
    /\ cached_data = "miss"
    /\ Positions("no_results") # {}
    /\ Cardinality(Positions("chunk")) = 2
    /\ frames[Len(frames)].k = "data_done"

\* the frame before chunk frame j that its delay is counted from: the chunk
\* before it, or processing_results
Previous(j) ==
    CHOOSE i \in 1..(j - 1) :
        /\ frames[i].k \in {"chunk", "processing_results"}
        /\ \A m \in (i + 1)..(j - 1) : frames[m].k \notin {"chunk", "processing_results"}

HeartbeatsBefore(j) == Cardinality({i \in Positions("thinking") : Previous(j) < i /\ i < j})

\* C7 (heartbeat insertion): a chunk the answer stream produces t after the
\* emission before it is emitted after exactly t \div T heartbeats (none when
\* t < T): every emitted chunk has that many heartbeats before it, and when
\* the multiplexer is over no chunk that was under way is missing.
C7_HeartbeatInsertion ==
    /\ \A j \in Positions("chunk") :
          HeartbeatsBefore(j) = (frames[j].t - frames[Previous(j)].t) \div timeout_seconds
    /\ mpc = "ended" => upstream.lost = 0

\* C8 (a stall keeps the upstream): as long as the client has not cancelled,
\* no pending read is abandoned and the answer stream is not cancelled; the
\* multiplexer is over only when the answer stream itself ended or failed.
C8_StallKeepsUpstream ==
    /\ mpc # "cancelled" => (read.abandoned = 0 /\ upstream.state # "cancelled")
    /\ mpc = "ended" => upstream.state \in {"finished", "failed"}

IsChunk(f) == f.k = "chunk"

\* C9 (chunk order): the chunks sent downstream are the chunks of the answer
\* stream, in order, each once; when the multiplexer is over none is missing.
C9_ChunkOrder ==
    /\ \A j \in 1..Len(SelectSeq(frames, IsChunk)) : SelectSeq(frames, IsChunk)[j].i = j
    /\ Len(SelectSeq(frames, IsChunk)) = upstream.produced
    /\ mpc = "ended" =>
          Len(SelectSeq(frames, IsChunk)) = upstream.produced + upstream.lost

C11_UpstreamError ==
    (mpc = "ended" /\ upstream.state = "failed") =>
        /\ Cardinality(Positions("error")) = 1
        /\ \A i \in Positions("chunk") : \A j \in Positions("error") : i < j
        /\ Len(SelectSeq(frames, IsChunk)) = upstream.produced
        /\ pc = "done"
        /\ frames[Len(frames)].k = "data_done"
        /\ frames[Len(frames) - 1].k = "error"

\* StatusMessage.error (line 84) and the error frame of the multiplexer
\* (line 136)
error(message) == <<"E","r","r","o","r",":"," ">> \o message
StreamError(message) ==
    <<"e","r","r","o","r",":"," ","S","t","r","e","a","m"," ","e","r","r","o","r",":"," ">>
    \o message

\* StatusMessage.no_data and StatusMessage.data_done (lines 76, 80)
no_data == <<"I"," ","d","o"," ","n","o","t"," ","h","a","v","e"," ","t","h","i","s"," ",
             "i","n","f","o","r","m","a","t","i","o","n"," ","y","e","t",".">>
data_done == <<"d","a","t","a",":"," ","[","D","O","N","E","]">>

\* the text a frame of kind k starts with; a chunk is any text
Text(k) ==
    CASE k = "Error" -> error(<< >>)
      [] k = "error" -> StreamError(<< >>)
      [] k = "no_data" -> no_data
      [] k = "data_done" -> data_done
      [] k = "chunk" -> << >>
      [] OTHER -> <<"s","t","a","t","u","s",":"," ">>

\* the frame starts with the prefix of a fatal frame
ERROR_PREFIX == <<"e","r","r","o","r",":"," ">>
IsErrorFrame(f) == MatchAt(Text(f.k), 1, ERROR_PREFIX)

\* an exception was raised in the stage, and the stream is over
LookupRaised == pc = "done" /\ lookups # << >> /\ cached_data = "none"
GenerationRaised == pc = "done" /\ raw_sparql_response = GenerateRaised
SingleRaised == pc = "done" /\ calls # << >> /\ sparql_results = None
SequentialRaised == pc = "done" /\ xpc = "raised"
ContextualizeRaised == pc = "done" /\ mpc = "off" /\ Positions("processing_results") # {}

\* C12 (no exception escapes): when an error was raised in a stage (cache
\* lookup, generation, execution, contextualize) the stream has ended with
\* data: [DONE], and a frame with the prefix "error: " was sent before it.
C12_ErrorFrames ==
    (LookupRaised \/ GenerationRaised \/ SingleRaised \/ SequentialRaised
       \/ ContextualizeRaised) =>
        /\ frames[Len(frames)].k = "data_done"
        /\ \E i \in 1..(Len(frames) - 1) : IsErrorFrame(frames[i])

\* a triplestore call of the request raised, and stage 2 is over
TransportFailed ==
    \/ calls # << >> /\ sparql_results = None /\ pc # "exec_single"
    \/ xpc = "raised" /\ pc # "exec_seq"

\* C13 (triplestore transport failure): once a triplestore call has failed,
\* of a Single query or of a step of a Sequential plan, the stream is over:
\* its last frames are the no-data frame and data: [DONE], no
\* processing_results frame was sent and the answer stream was not started.
C13_TransportFailure ==
    TransportFailed =>
        /\ pc = "done"
        /\ Text(frames[Len(frames) - 1].k) = no_data
        /\ Text(frames[Len(frames)].k) = data_done
        /\ Positions("processing_results") = {}
        /\ mpc = "off"

\* the store call i was made for a Sequential plan
IsPlanStore(i) == stores[i].plan # << >>

\* C14 (legacy-read, canonical-write): every cache write made for a
\* Sequential plan, a plan read from a ---query N--- delimited entry
\* included, has the structured list of the plan that ran as its payload; no
\* write has the delimited form as its payload.
C14_CanonicalWrite ==
    \A i \in 1..Len(stores) :
        /\ stores[i].sparql_query \in {"JSON", "SINGLE"}
        /\ IsPlanStore(i) =>
              /\ stores[i].sparql_query = "JSON"
              /\ stores[i].plan = sparql_queries
              /\ FromCache(json_dumps(stores[i].plan)) = Payload(TRUE, queries)

\* a two-step plan was read from a delimited entry, ran, and was stored
C14_Witness ==
    /\ cached_data = "legacy"
    /\ \E qs \in SeqPlans :
          /\ cached_sparql = NotJson(LegacyFrom(qs, 1))
          /\ Contains(cached_sparql.text, QUERY_)
          /\ stores = <<[sparql_query |-> "JSON", plan |-> qs, at |-> 2]>>

\* the effective query of the request: the context, when there is one, an
\* empty line and the query
Effective(req) ==
    IF req.context = << >> THEN req.query
    ELSE req.context \o <<"\n","\n">> \o req.query

\* key is text without the a leading and b trailing characters, lowercased
TrimmedBy(key, text, a, b) ==
    /\ a + Len(key) + b = Len(text)
    /\ \A i \in 1..a : text[i] \in Whitespace
    /\ \A i \in (Len(text) - b + 1)..Len(text) : text[i] \in Whitespace
    /\ \A i \in 1..Len(key) : key[i] = ToLower(text[a + i])

\* key is the lowercased, trimmed text
IsNormalizedKey(key, text) ==
    /\ \A i \in 1..Len(key) : key[i] \notin Upper
    /\ key # << >> => (key[1] \notin Whitespace /\ key[Len(key)] \notin Whitespace)
    /\ \E a \in 0..Len(text), b \in 0..Len(text) : TrimmedBy(key, text, a, b)

\* the cache answered with an entry
CacheHit == cached_data \notin {"none", "miss"}

\* C15 (cache hit and miss transitions): a request emits processing first and
\* then makes one cache lookup, with the lowercased, trimmed effective query
\* as key; on a hit the generation is never called and no generating_sparql
\* frame is sent; on a miss generating_sparql is sent before the generation
\* is called.
C15_CacheGate ==
    /\ Len(lookups) <= 1
    /\ pc \notin {"start", "lookup"} => Len(lookups) = 1
    /\ \A i \in 1..Len(lookups) :
          /\ frames[1].k = "processing_query"
          /\ IsNormalizedKey(lookups[i], Effective(request))
    /\ CacheHit =>
          /\ raw_sparql_response = NoResponse
          /\ Positions("generating_sparql") = {}
    /\ cached_data = "miss" => Positions("generating_sparql") = {2}
    /\ raw_sparql_response # NoResponse =>
          /\ cached_data = "miss"
          /\ Positions("generating_sparql") = {2}

\* a request with a context missed the cache and the generation was called
C15_Witness ==
    /\ request.context # << >>
    /\ lookups = << <<"i","n"," ","\n","\n","t","o","p">> >>
    /\ cached_data = "miss"
    /\ raw_sparql_response.state = "returned"

\* the text holds one of the words of a SPARQL form
HasForm(text) ==
    \/ Contains(text, SELECT_WORD)
    \/ Contains(text, ASK_WORD)
    \/ Contains(text, CONSTRUCT_WORD)
    \/ Contains(text, DESCRIBE_WORD)

\* on a miss the language model returned nothing usable, or the call raised
ParserEmpty ==
    /\ cached_data = "miss"
    /\ \/ raw_sparql_response = GenerateRaised
       \/ raw_sparql_response.state = "returned" /\ ~HasForm(raw_sparql_response.text)

\* the kinds of the frames sent so far
FrameKinds == [i \in 1..Len(frames) |-> frames[i].k]

\* C16 (parser-empty path): on a miss, when the language model returned an
\* empty text or a text with no SPARQL form, or the generation call raised,
\* the stream is over with the no-data frame and data: [DONE] after the two
\* status frames; no executing_query frame was sent, no triplestore call and
\* no cache write was made.
C16_ParserEmpty ==
    ParserEmpty =>
        /\ pc = "done"
        /\ FrameKinds = <<"processing_query", "generating_sparql", "no_data", "data_done">>
        /\ Text(frames[3].k) = no_data
        /\ Text(frames[4].k) = data_done
        /\ calls = << >>
        /\ dispatched = << >>
        /\ stores = << >>

\* the language model answered with prose that holds no query
C16_Witness ==
    /\ ParserEmpty
    /\ raw_sparql_response.text = <<"N","o"," ","i","d","e","a">>
    /\ pc = "done"

\* the response was classified as a Single payload and is executed
ExecutedAsSingle ==
    /\ ~is_sequential
    /\ sparql_query = "SINGLE"
    /\ Positions("executing_query") # {}
    /\ pc # "exec_single" => calls = <<"SINGLE">>

\* C17 (classification of model output): a response of the language model
\* that is not a sequential plan and holds one of the forms SELECT, ASK,
\* CONSTRUCT, DESCRIBE is a Single payload and is executed; the no-data path
\* is taken only by a response with none of them.
C17_Classification ==
    (cached_data = "miss" /\ raw_sparql_response.state = "returned"
       /\ raw_sparql_response.plan = << >>) =>
        /\ HasForm(raw_sparql_response.text) => ExecutedAsSingle
        /\ ~HasForm(raw_sparql_response.text) => FrameKinds[3] = "no_data"

\* the cache answered with a stale entry: a text that is not a structured
\* list, has a separator, and gives the legacy parser no step
CorruptEntry ==
    /\ CacheHit
    /\ ~cached_sparql.json
    /\ Contains(cached_sparql.text, SPLIT_)
    /\ _parse_cached_sequential_sparql(cached_sparql.text) = << >>

\* C18 (cache transparency): a request whose cache entry is stale or corrupt
\* goes on as on a miss: generating_sparql is sent and the language model is
\* asked for the query; the request does not end on the entry.
C18_CacheTransparency ==
    CorruptEntry =>
        /\ Positions("generating_sparql") # {}
        /\ pc = "generate" \/ raw_sparql_response # NoResponse

(***************************************************************************)
(* Further properties of the sequential executor (SpecExec)                *)
(***************************************************************************)
\* the names a response binds: the columns of its first row, or boolean
Names(r) ==
    IF r.rows # << >> THEN {r.rows[1][c].var : c \in 1..Len(r.rows[1])}
    ELSE IF r.hasBoolean THEN {BOOLEAN_KEY}
    ELSE {}

\* the value the response r binds the name var to
Bound(r, var) ==
    IF r.rows # << >>
    THEN Convert(r.rows[1][CHOOSE c \in 1..Len(r.rows[1]) : r.rows[1][c].var = var].raw)
    ELSE MkBool(r.boolean)

\* the latest of the first k responses that binds var
LatestBinding(var, k) ==
    CHOOSE j \in 1..k :
        /\ var \in Names(received[j])
        /\ \A m \in (j + 1)..k : var \notin Names(received[m])

\* C19 (bindings invariant): the bindings step k is evaluated on have as
\* keys exactly the column names of the first rows of the earlier non-empty
\* tabular responses, and boolean when an earlier response was a boolean;
\* each key holds the value of the latest earlier response with that name;
\* no row after the first contributes.
C19_Bindings ==
    \A k \in 1..Len(dispatched) :
        /\ Keys(dispatched[k].seen) = UNION {Names(received[j]) : j \in 1..(k - 1)}
        /\ Cardinality(Keys(dispatched[k].seen)) = Len(dispatched[k].seen)
        /\ \A b \in 1..Len(dispatched[k].seen) :
              dispatched[k].seen[b].val =
                  Bound(received[LatestBinding(dispatched[k].seen[b].var, k - 1)],
                        dispatched[k].seen[b].var)

\* the third step saw the label of the first response and the first row of
\* the two rows of the second
C19_Witness ==
    /\ Len(dispatched) = 3
    /\ received[1] = Tabular(<< <<Col(label, <<"a","b","c">>)>> >>)
    /\ Len(received[2].rows) = 2
    /\ dispatched[3].seen = << [var |-> label, val |-> MkStr(<<"a","b","c">>)],
                               [var |-> total, val |-> MkInt(5)],
                               [var |-> n_, val |-> MkInt(0)] >>

\* the expression names a variable that is not bound, or eval raised on it
Failed(e) == e.missing \/ e.raw.t = "err"

\* C20 (injection errors do not abort the plan): when an expression names a
\* missing variable or its evaluation raises, the evaluator returns 1, the
\* marker is written as 1 and the step is dispatched (as LIMIT 1 when that
\* is its only marker); the executor raises only on a triplestore call, and
\* a plan that returns has dispatched every step.
C20_InjectionErrors ==
    /\ \A kj \in LogEntries :
          Failed(Entry(kj)) =>
              /\ Entry(kj).value = MkInt(1)
              /\ Entry(kj).matched => Entry(kj).replacement = <<"1">>
              /\ (Entry(kj).matched /\ Len(dispatched[kj[1]].log) = 1) =>
                    dispatched[kj[1]].query = SELECT_ \o LIMIT_ \o <<"1">>
    /\ xpc = "raised" => Len(dispatched) = Len(received) + 1
    /\ xpc = "returned" => Len(dispatched) = Len(queries)

\* total = 0 made 4/total raise in the second of three steps; the step went
\* out as LIMIT 1 and the third step was executed
C20_Witness ==
    /\ xpc = "returned"
    /\ Len(queries) = 3
    /\ Len(received) = 3
    /\ queries[2] = LimitStep(<<"4">> \o SLASH \o total)
    /\ dispatched[2].seen = <<[var |-> total, val |-> MkInt(0)]>>
    /\ ~dispatched[2].log[1].missing
    /\ dispatched[2].log[1].raw = Err
    /\ dispatched[2].query = SELECT_ \o LIMIT_ \o <<"1">>

\* the divisors k of the plans LIMIT INJECT(total/k)
Divisors == {2, 3, 4}

\* m is the integer nearest to n/k (either of the two at a tie), and 1 when
\* that integer is below 1
ClampedNearest(m, n, k) ==
    IF 2 * n <= k THEN m = 1
    ELSE m >= 1 /\ 2 * AbsInt(m * k - n) <= k

\* the first row of the response r binds total to the integer text of n >= 0
BindsTotal(r, n) ==
    /\ r.rows # << >>
    /\ \E c \in 1..Len(r.rows[1]) : r.rows[1][c] = Col(total, NatToStr(n))

\* the totals of the model's responses
Totals == (0..(MaxTotal + 1)) \cup {10882}

\* the second step of a two-step plan was LIMIT INJECT(total/k) and went out
\* on bindings that hold total as the integer n and as LIMIT m, m the
\* clamped nearest integer of n/k
ArithmeticHolds(n, k) ==
    /\ \E b \in 1..Len(dispatched[2].seen) :
          dispatched[2].seen[b] = [var |-> total, val |-> MkInt(n)]
    /\ Len(dispatched[2].log) = 1
    /\ IsDigits(dispatched[2].log[1].replacement)
    /\ ClampedNearest(DigitsToNat(dispatched[2].log[1].replacement), n, k)
    /\ dispatched[2].query = SELECT_ \o LIMIT_ \o dispatched[2].log[1].replacement

\* C21 (arithmetic injection): in a two-step plan whose first response binds
\* total, in its first row, to an integer n >= 0 and whose second step is
\* LIMIT INJECT(total/k), k >= 1, the second query is dispatched as LIMIT m
\* with m the integer nearest to n/k, at least 1, and the bindings hold total
\* as the integer n.
C21_ArithmeticInjection ==
    \A n \in Totals : \A k \in Divisors :
        ( /\ Len(queries) = 2
          /\ Len(dispatched) = 2
          /\ queries[2] = LimitStep(total \o SLASH \o NatToStr(k))
          /\ BindsTotal(received[1], n) ) => ArithmeticHolds(n, k)

\* the same on first rows that bind total and nothing else
ArithmeticOnCountRow ==
    \A n \in Totals : \A k \in Divisors :
        ( /\ Len(queries) = 2
          /\ Len(dispatched) = 2
          /\ queries[2] = LimitStep(total \o SLASH \o NatToStr(k))
          /\ received[1] = Tabular(<< <<Col(total, NatToStr(n))>> >>) ) => ArithmeticHolds(n, k)

\* S3: total = 10882 and LIMIT INJECT(total/2) has gone out as LIMIT 5441
ArithmeticS3 ==
    /\ Len(dispatched) = 2
    /\ queries[2] = LimitStep(total \o SLASH \o <<"2">>)
    /\ dispatched[2].seen = <<[var |-> total, val |-> MkInt(10882)]>>
    /\ dispatched[2].query = SELECT_ \o LIMIT_ \o <<"5","4","4","1">>

\* every identifier of the expression of the log entry e is a key of the
\* bindings seen or a function of safe_dict
AllAllowed(e, seen) == Identifiers(Unwrap(e.expr)) \subseteq (Keys(seen) \cup SafeNames)

\* C22 (allowed-function set): an expression whose identifiers are all keys
\* of the bindings or one of int, float, round, abs, min, max, ceil, floor is
\* evaluated, not answered with the default for unknown identifiers; on a
\* count row total = n, INJECT(ceil(total/3)) gives the ceiling of n/3.
C22_AllowedFunctions ==
    \A kj \in LogEntries :
        AllAllowed(Entry(kj), dispatched[kj[1]].seen) =>
            /\ ~Entry(kj).missing
            /\ \A n \in Totals :
                  ( /\ Entry(kj).expr = Marker(CEIL \o LPAR \o total \o SLASH \o <<"3">> \o RPAR)
                    /\ dispatched[kj[1]].seen = <<[var |-> total, val |-> MkInt(n)]>> )
                  => Entry(kj).value = MkInt(CeilDiv(n, 3))

\* the inner expressions and the wrappers of the model's wrapped steps
InnerExprs == { total \o SLASH \o <<"2">>, Wrapped(ROUND, total \o SLASH \o <<"2">>) }
Wrappers == { INJECT, INJECT \o FROM_PREVIOUS }

\* C23 (wrapper symmetry): on the same bindings the evaluator returns the
\* same value for w(e), w(evaluate(e)) and evaluate(w(e)), for w either
\* INJECT or INJECT_FROM_PREVIOUS.
C23_WrapperSymmetry ==
    \A k \in 1..Len(dispatched) : \A w \in Wrappers : \A e \in InnerExprs :
        queries[k].inject_params = Wrappings(w, e) =>
            /\ dispatched[k].log[2].value = dispatched[k].log[1].value
            /\ dispatched[k].log[3].value = dispatched[k].log[1].value

\* the nesting w(evaluate(e)) agrees with w(e) when e has no parentheses
WrapperInside ==
    \A k \in 1..Len(dispatched) : \A w \in Wrappers :
        queries[k].inject_params = Wrappings(w, total \o SLASH \o <<"2">>) =>
            dispatched[k].log[2].value = dispatched[k].log[1].value

\* the bindings b with every text value replaced by the empty text
Blank(b) ==
    [i \in 1..Len(b) |->
        [var |-> b[i].var, val |-> IF b[i].val.t = "str" THEN MkStr(<< >>) ELSE b[i].val]]

\* what a token contributes to the evaluation: a literal, or the operator
\* or name it is
Operation(tk) == IF tk.k \in {"num", "str"} THEN <<"literal">> ELSE <<tk.k, tk.s>>
Operations(ts) == [i \in 1..Len(ts) |-> Operation(ts[i])]

\* the operations eval is given for expr on the bindings b
Evaluates(expr, b) == Operations(Tokenize(Substitute(Unwrap(expr), b), 1))

\* C24 (sandboxed evaluation): the text of a binding value never changes
\* which operations are evaluated: whenever an expression is evaluated to a
\* value, the operators and names given to eval are those it is given when
\* every text value is replaced by the empty text.
C24_Sandbox ==
    \A kj \in LogEntries :
        (~Entry(kj).missing /\ Entry(kj).raw.t # "err") =>
            Evaluates(Entry(kj).expr, dispatched[kj[1]].seen)
                = Evaluates(Entry(kj).expr, Blank(dispatched[kj[1]].seen))

\* the same on bindings whose text values hold no quote
SandboxOnPlainTexts ==
    \A kj \in LogEntries :
        ( /\ ~Entry(kj).missing /\ Entry(kj).raw.t # "err"
          /\ \A b \in 1..Len(dispatched[kj[1]].seen) :
                ~Contains(PyStr(dispatched[kj[1]].seen[b].val), <<"'">>) ) =>
            Evaluates(Entry(kj).expr, dispatched[kj[1]].seen)
                = Evaluates(Entry(kj).expr, Blank(dispatched[kj[1]].seen))

(***************************************************************************)
(* Concurrent streams: _stream_with_timeout_messages is called once per    *)
(* request; the calls run on one event loop and share its clock.           *)
(***************************************************************************)
\* THINKING_MESSAGES (lines 38-47)
THINKING_MESSAGES ==
    << "status: Analyzing your query deeply\n",
       "status: Exploring the knowledge graph\n",
       "status: Finding relevant connections\n",
       "status: Processing complex relationships\n",
       "status: Gathering comprehensive data\n",
       "status: Cross-referencing information\n",
       "status: Validating query results\n",
       "status: Optimizing data retrieval\n" >>

\* how long a source of these streams takes to produce its next item: no
\* time, or three stall windows
Stalls == {0, 3 * timeout_seconds}

\* what the source of stream s does next: the source of the first stream
\* produces chunks, ends or raises; the others produce no chunk
SourceEvents(s) ==
    IF s = 1 THEN {"chunk", "end", "Exception", "TimeoutError"}
    ELSE {"end", "Exception", "TimeoutError"}

\* a frame of a stream: a chunk, the thinking message at position i, the
\* error frame
Yielded(k, i) == [k |-> k, i |-> i]

\* lines 72 and 94: the cycle a stream draws its next message from is the
\* one its own call of the wrapper made
CursorOfFirst(strs, s) == strs[1].message_cycle
Cursor(strs, s) == strs[s].message_cycle

\* lines 101-107: wait_for(stream_iter.__anext__(), timeout) starts; the
\* source is to give e after d
Reading(m, e, d) ==
    [m EXCEPT !.read = [@ EXCEPT !.pending = TRUE, !.deadline = now + timeout_seconds],
              !.upstream = Scheduled(@, e, d),
              !.mpc = "wait"]

\* lines 94-99: the wrapper is called and starts its first read
Opened(e, d) == Reading([Unopened EXCEPT !.last_status_time = now], e, d)

\* lines 115-117: the message at the cursor c is yielded and the cursor
\* moves on
Heartbeat(m, c) ==
    [m EXCEPT !.frames = Append(@, Yielded("thinking", c)),
              !.message_cycle = (c + 1) % NumThinking,
              !.last_status_time = now,
              !.mpc = "yield"]

\* lines 112-119: except asyncio.TimeoutError
TimedOut(m, c, e, d) ==
    IF now - m.last_status_time >= timeout_seconds THEN Heartbeat(m, c) ELSE Reading(m, e, d)

\* lines 104-110, 121-124, 131-136: the read of m completes
Received(m, c, e, d) ==
    CASE m.upstream.ev = "chunk" ->
            [m EXCEPT !.last_status_time = now,
                      !.frames = Append(@, Yielded("chunk", m.upstream.produced + 1)),
                      !.upstream = [@ EXCEPT !.produced = @ + 1, !.ev = "none"],
                      !.read = [@ EXCEPT !.pending = FALSE],
                      !.mpc = "yield"]
      [] m.upstream.ev = "end" ->
            [m EXCEPT !.upstream = [@ EXCEPT !.state = IF @ = "open" THEN "finished" ELSE @],
                      !.read = [@ EXCEPT !.pending = FALSE],
                      !.mpc = "ended"]
      [] m.upstream.ev = "Exception" ->
            [m EXCEPT !.frames = Append(@, Yielded("error", 0)),
                      !.upstream = [@ EXCEPT !.state = "failed"],
                      !.read = [@ EXCEPT !.pending = FALSE],
                      !.mpc = "yield_error"]
      [] m.upstream.ev = "TimeoutError" ->
            TimedOut([m EXCEPT !.upstream = [@ EXCEPT !.state = "failed", !.ev = "none"],
                               !.read = [@ EXCEPT !.pending = FALSE]],
                     c, e, d)

\* the variables of the single request, which these streams leave alone
requestVars == <<execVars, pipeVars, mpc, upstream, read, last_status_time, message_cycle, served>>

\* a request reaches line 544 and calls the wrapper
StreamOpen ==
    /\ \E s \in Streams :
          /\ streams[s].mpc = "off"
          /\ \E e \in SourceEvents(s), d \in Stalls :
                streams' = [streams EXCEPT ![s] = Opened(e, d)]
    /\ UNCHANGED <<now, requestVars>>

\* time passes while no open stream has anything to do
StreamTick ==
    /\ \E s \in Streams : streams[s].mpc = "wait"
    /\ \A s \in Streams :
          \/ streams[s].mpc \in {"off", "ended", "cancelled"}
          \/ /\ streams[s].mpc = "wait"
             /\ now < streams[s].read.deadline
             /\ now < streams[s].upstream.at
    /\ now' = now + 1
    /\ UNCHANGED <<streams, requestVars>>

\* the read of a stream completes before its timeout
StreamReceive ==
    /\ \E s \in Streams :
          /\ streams[s].mpc = "wait"
          /\ streams[s].upstream.at <= now
          /\ now < streams[s].read.deadline
          /\ \E e \in SourceEvents(s), d \in Stalls :
                streams' = [streams EXCEPT
                               ![s] = Received(streams[s], Cursor(streams, s), e, d)]
    /\ UNCHANGED <<now, requestVars>>

\* the timeout of wait_for is due: the read is cancelled, TimeoutError raised
StreamTimeout ==
    /\ \E s \in Streams :
          /\ streams[s].mpc = "wait"
          /\ now >= streams[s].read.deadline
          /\ \E closes \in BOOLEAN, e \in SourceEvents(s), d \in Stalls :
                streams' = [streams EXCEPT ![s] =
                    TimedOut([streams[s] EXCEPT
                                 !.upstream = Interrupted(@, closes),
                                 !.read = [@ EXCEPT !.pending = FALSE, !.abandoned = @ + 1]],
                             Cursor(streams, s), e, d)]
    /\ UNCHANGED <<now, requestVars>>

\* the consumer of a stream asks for the next item
StreamResume ==
    /\ \E s \in Streams :
          /\ streams[s].mpc \in {"yield", "yield_error"}
          /\ \E e \in SourceEvents(s), d \in Stalls :
                streams' = [streams EXCEPT ![s] =
                    IF streams[s].mpc = "yield" THEN Reading(streams[s], e, d)
                    ELSE [streams[s] EXCEPT !.mpc = "ended"]]
    /\ UNCHANGED <<now, requestVars>>

\* the streams as they start: none is open; their clients stay connected
StreamsInit ==
    /\ queries = << >>
    /\ idx = 0
    /\ previous_results = << >>
    /\ final_results = None
    /\ xpc = "idle"
    /\ dispatched = << >>
    /\ received = << >>
    /\ request = [query |-> << >>, context |-> << >>]
    /\ Unstarted

StreamsNext ==
    \/ StreamOpen \/ StreamTick \/ StreamReceive \/ StreamTimeout \/ StreamResume

SpecStreams == StreamsInit /\ [][StreamsNext]_vars

IsThinking(f) == f.k = "thinking"
\* the heartbeats stream s has emitted, in order
Heartbeats(s) == SelectSeq(streams[s].frames, IsThinking)

\* C25 (heartbeat rotation): in every stream the k-th heartbeat is message
\* (k-1) mod 8 of the eight thinking messages, chunks in between do not
\* reset the rotation, the first heartbeat of every stream is "status:
\* Analyzing your query deeply" however the streams interleave, and the
\* cursor of a stream has moved once per heartbeat of that stream only.
C25_HeartbeatRotation ==
    /\ Len(THINKING_MESSAGES) = 8
    /\ \A s \in Streams :
          /\ \A k \in 1..Len(Heartbeats(s)) : Heartbeats(s)[k].i = (k - 1) % 8
          /\ Heartbeats(s) # << >> =>
                THINKING_MESSAGES[Heartbeats(s)[1].i + 1]
                    = "status: Analyzing your query deeply\n"
          /\ streams[s].message_cycle = Len(Heartbeats(s)) % 8

\* stream 1 has emitted nine heartbeats, the ninth the first message again,
\* with chunks in between; stream 2 emits its first heartbeat only now
C25_Witness ==
    /\ Len(Heartbeats(1)) = 9
    /\ Heartbeats(1)[9].i = 0
    /\ \E i \in 1..Len(streams[1].frames) :
          /\ streams[1].frames[i].k = "chunk"
          /\ i > 1 /\ streams[1].frames[i - 1].k = "thinking"
          /\ i < Len(streams[1].frames)
    /\ Len(Heartbeats(2)) = 1
    /\ streams[2].mpc = "yield"
    /\ streams[2].frames = <<Yielded("thinking", 0)>>

(***************************************************************************)
(* Properties of the executor inside a request (Spec, SpecExec)            *)
(***************************************************************************)
\* C26 (abort on failure): once the triplestore call of a step of a
\* Sequential plan has failed, the executor has raised out of the plan: the
\* failed step is the last one dispatched, no later step is ever dispatched
\* and no cache write is made for the plan in the request.
C26_AbortOnFailure ==
    xpc = "raised" =>
        /\ Len(dispatched) = Len(received) + 1
        /\ Len(dispatched) <= Len(queries)
        /\ \A i \in 1..Len(stores) : ~IsPlanStore(i)
        /\ stores = << >>

\* the first step of a two-step plan failed and the request is over: the
\* second step was never dispatched and nothing was stored
C26_Witness ==
    /\ xpc = "raised"
    /\ pc = "done"
    /\ Len(queries) = 2
    /\ Len(dispatched) = 1
    /\ received = << >>
    /\ stores = << >>

\* C27 (empty intermediate result): when a step other than the last returns
\* an empty tabular response (no rows, no boolean), the executor goes on to
\* the next step, which is evaluated on exactly the bindings the empty step
\* was evaluated on; a plan that returns has dispatched every step.
C27_EmptyIntermediate ==
    \A k \in 1..Len(received) :
        (received[k] = Tabular(<< >>) /\ k < Len(queries)) =>
            /\ (Len(dispatched) = k => xpc = "loop" /\ idx = k)
            /\ (Len(dispatched) > k => dispatched[k + 1].seen = dispatched[k].seen)
            /\ xpc = "returned" => Len(dispatched) = Len(queries)

\* the second of three steps returned no rows; the third was dispatched on
\* the binding of the first, total = 5, as LIMIT 2
C27_Witness ==
    /\ xpc = "returned"
    /\ Len(queries) = 3
    /\ received[1] = Tabular(<< <<Col(total, <<"5">>)>> >>)
    /\ received[2] = Tabular(<< >>)
    /\ dispatched[2].seen = <<[var |-> total, val |-> MkInt(5)]>>
    /\ dispatched[3].seen = <<[var |-> total, val |-> MkInt(5)]>>
    /\ dispatched[3].query = SELECT_ \o LIMIT_ \o <<"2">>

\* a non-empty plan has been executed without a failing triplestore call
PlanReturned == xpc = "returned" /\ queries # << >>

LastResponse == received[Len(received)]

\* the response has no rows and no boolean
IsEmptyResponse(r) == r.rows = << >> /\ ~r.hasBoolean

RECURSIVE SubstituteTokensFrom(_, _, _)
SubstituteWord(expr, b, i, e) ==
    (IF Slice(expr, i, e) \in Keys(b)
     THEN Literal(b[IndexOf(b, Slice(expr, i, e))].val)
     ELSE Slice(expr, i, e))
        \o SubstituteTokensFrom(expr, b, e + 1)

SubstituteTokensFrom(expr, b, i) ==
    IF i > Len(expr) THEN << >>
    ELSE IF expr[i] \in IdStart /\ (i = 1 \/ expr[i - 1] \notin WordChar)
    THEN SubstituteWord(expr, b, i, RunEnd(expr, i, WordChar))
    ELSE <<expr[i]>> \o SubstituteTokensFrom(expr, b, i + 1)

\* the value of the unwrapped expression expr under whole-identifier
\* substitution, with the default and the coercion of lines 268 and 295-308
ValueByTokens(expr, b) ==
    IF MissingVars(expr, b) # {} THEN MkInt(1)
    ELSE Coerce(EvalText(SubstituteTokensFrom(expr, b, 1)))

\* the bindings in the opposite iteration order
Reversed(b) == [i \in 1..Len(b) |-> b[Len(b) + 1 - i]]

\* the bindings whose names are identifier tokens of the unwrapped expression
RECURSIVE Occurring(_, _, _)
Occurring(ids, b, k) ==
    IF k > Len(b) THEN << >>
    ELSE (IF b[k].var \in ids THEN <<b[k]>> ELSE << >>) \o Occurring(ids, b, k + 1)

\* one evaluation of the log agrees with whole-identifier substitution and
\* does not depend on the other bindings or on the iteration order
ByIdentifier(entry, b) ==
    /\ entry.value = ValueByTokens(Unwrap(entry.expr), b)
    /\ entry.value = _evaluate_injection(entry.expr, Reversed(b))
    /\ entry.value = _evaluate_injection(entry.expr,
                                         Occurring(Identifiers(Unwrap(entry.expr)), b, 1))

\* C29 (whole-identifier substitution): the value of every injection
\* expression evaluated by the executor is the value of the expression with
\* each identifier token replaced by the value bound to exactly that name;
\* it is the same on the bindings in the opposite order and on the bindings
\* restricted to the names that are identifier tokens of the expression.
C29_WholeIdentifier ==
    \A k \in 1..Len(dispatched) : \A i \in 1..Len(dispatched[k].log) :
        ByIdentifier(dispatched[k].log[i], dispatched[k].seen)

\* every occurrence of a bound name in the expression is an identifier token
\* of its own: no bound name lies inside another word of the expression
SeparateNames(expr, b) ==
    \A v \in Keys(b) : \A w \in Identifiers(expr) : Contains(w, v) => w = v

\* the same on expressions in which no bound name lies inside another word
ByIdentifierOnSeparateNames ==
    \A k \in 1..Len(dispatched) : \A i \in 1..Len(dispatched[k].log) :
        SeparateNames(Unwrap(dispatched[k].log[i].expr), dispatched[k].seen)
            => ByIdentifier(dispatched[k].log[i], dispatched[k].seen)

\* min(n, 3) on {n: 5, total: 6} has been evaluated to 1
MinRenamed ==
    \E k \in 1..Len(dispatched) :
        /\ dispatched[k].seen = <<[var |-> n_, val |-> MkInt(5)], [var |-> total, val |-> MkInt(6)]>>
        /\ Len(dispatched[k].log) = 1
        /\ dispatched[k].log[1].expr = Marker(MinOf)
        /\ dispatched[k].log[1].value = MkInt(1)
        /\ ValueByTokens(MinOf, dispatched[k].seen) = MkInt(3)

(***************************************************************************)
(* The markers recorded by the legacy parser                               *)
(***************************************************************************)
\* every INJECT(...) and INJECT_FROM_PREVIOUS(...) of the text s from i on,
\* left to right, each up to its matching closing parenthesis (the pattern
\* the executor replaces, line 180); i the start of the next one, 0: none
NextMarker(s, from) == Least({i \in from..Len(s) : MarkerEndAt(s, i) # 0})

RECURSIVE CompleteMarkers(_, _)
CompleteMarkers(s, i) ==
    IF i = 0 THEN << >>
    ELSE <<Slice(s, i, MarkerEndAt(s, i))>>
         \o CompleteMarkers(s, NextMarker(s, MarkerEndAt(s, i) + 1))

\* the steps the legacy parser made of the cached text record the complete
\* markers of their bodies
RecordsMarkers(steps) ==
    \A k \in 1..Len(steps) :
        steps[k].inject_params = CompleteMarkers(steps[k].query, NextMarker(steps[k].query, 1))

\* C30 (legacy marker recording): for every step read from a legacy
\* delimited cache entry the parser records every INJECT(...) and
\* INJECT_FROM_PREVIOUS(...) occurrence of the body, in textual order, each
\* as the complete marker up to its matching closing parenthesis.
C30_LegacyMarkers ==
    cached_data = "legacy" => RecordsMarkers(FromCache(cached_sparql).sparql_queries)

\* the same on entries whose markers are INJECT(e) with no parenthesis in e
LegacyMarkersFlat ==
    (cached_data = "legacy" /\ \E qs \in SeqPlans : cached_sparql = NotJson(LegacyFrom(qs, 1)))
        => RecordsMarkers(FromCache(cached_sparql).sparql_queries)

\* the entry held INJECT(round(total/2)); the parser recorded the marker
\* without its last parenthesis, and the plan ran with it
LegacyNested ==
    /\ cached_data = "legacy"
    /\ Len(sparql_queries) = 2
    /\ sparql_queries[2].query = SELECT_ \o LIMIT_ \o Marker(Wrapped(ROUND, total \o SLASH \o <<"2">>))
    /\ sparql_queries[2].inject_params = <<INJECT \o LPAR \o ROUND \o LPAR \o total \o SLASH \o <<"2",")">> >>
    /\ Len(dispatched) = 2

\* the entry held INJECT_FROM_PREVIOUS(total/2); the parser recorded nothing
LegacyFromPrevious ==
    /\ cached_data = "legacy"
    /\ Len(sparql_queries) = 2
    /\ sparql_queries[2].query
           = SELECT_ \o LIMIT_ \o Wrapped(INJECT \o FROM_PREVIOUS, total \o SLASH \o <<"2">>)
    /\ sparql_queries[2].inject_params = << >>
    /\ Len(dispatched) = 2
    /\ dispatched[2].query = sparql_queries[2].query

(***************************************************************************)
(* Which marker a value is written over                                    *)
(***************************************************************************)
\* the parameters are markers, INJECT(...) or INJECT_FROM_PREVIOUS(...)
AreMarkers(inject_params) ==
    \A k \in 1..Len(inject_params) : MatchAt(inject_params[k], 1, INJECT)

\* the parameters k.. occur in the body in this order, from position from on
RECURSIVE InTextualOrder(_, _, _, _)
InTextualOrder(query, inject_params, k, from) ==
    IF k > Len(inject_params) THEN TRUE
    ELSE IF Find(query, inject_params[k], from) = 0 THEN FALSE
    ELSE InTextualOrder(query, inject_params, k + 1,
                        Find(query, inject_params[k], from) + Len(inject_params[k]))

\* the body from position from on with the occurrence of each parameter
\* k.. replaced by the text of its own value when the marker pattern matches
\* that occurrence, and kept when it does not; p the occurrence of
\* parameter k
RECURSIVE ReplacedInPlace(_, _, _, _, _), ReplacedAt(_, _, _, _, _, _)
ReplacedAt(query, inject_params, log, k, from, p) ==
    Slice(query, from, p - 1)
        \o (IF MarkerEndAt(query, p) = p + Len(inject_params[k]) - 1
            THEN Replacement(log[k].value)
            ELSE inject_params[k])
        \o ReplacedInPlace(query, inject_params, log, k + 1, p + Len(inject_params[k]))

ReplacedInPlace(query, inject_params, log, k, from) ==
    IF k > Len(inject_params) THEN Slice(query, from, Len(query))
    ELSE ReplacedAt(query, inject_params, log, k, from, Find(query, inject_params[k], from))

\* step k was dispatched with every value written over its own marker
OwnMarkers(k) ==
    dispatched[k].query
        = ReplacedInPlace(queries[k].query, queries[k].inject_params, dispatched[k].log, 1, 1)

\* C31 (marker replacement): for a step whose markers are listed in textual
\* order, the value computed from the i-th marker replaces the i-th marker
\* occurrence of the body, the text outside the replaced markers is
\* unchanged, and a marker the pattern cannot match is left in place while
\* the other markers still get their own values.
C31_MarkerReplacement ==
    \A k \in 1..Len(dispatched) :
        ( /\ AreMarkers(queries[k].inject_params)
          /\ InTextualOrder(queries[k].query, queries[k].inject_params, 1, 1) )
            => OwnMarkers(k)

\* the marker pattern matches every marker of the step at its occurrence
RECURSIVE AllMatched(_, _, _, _)
AllMatched(query, inject_params, k, from) ==
    IF k > Len(inject_params) THEN TRUE
    ELSE /\ Find(query, inject_params[k], from) # 0
         /\ MarkerEndAt(query, Find(query, inject_params[k], from))
                = Find(query, inject_params[k], from) + Len(inject_params[k]) - 1
         /\ AllMatched(query, inject_params, k + 1,
                       Find(query, inject_params[k], from) + Len(inject_params[k]))

\* the same on steps all of whose markers the pattern matches
OwnMarkersWhenMatched ==
    \A k \in 1..Len(dispatched) :
        ( /\ AreMarkers(queries[k].inject_params)
          /\ AllMatched(queries[k].query, queries[k].inject_params, 1, 1) )
            => OwnMarkers(k)

\* LIMIT INJECT(round((total)/2)) OFFSET INJECT(total) on total = 6 went out
\* with the first marker in place and its value, 3, as the offset
DeepMarkerMisplaced ==
    /\ Len(dispatched) = 2
    /\ dispatched[2].seen = <<[var |-> total, val |-> MkInt(6)]>>
    /\ Len(dispatched[2].log) = 2
    /\ dispatched[2].log[1].value = MkInt(3)
    /\ dispatched[2].log[2].value = MkInt(6)
    /\ ~dispatched[2].log[2].matched
    /\ dispatched[2].query
          = SELECT_ \o LIMIT_
              \o Marker(Wrapped(ROUND, LPAR \o total \o RPAR \o SLASH \o <<"2">>))
              \o OFFSET_ \o <<"3">>

(***************************************************************************)
(* The completion signal                                                   *)
(***************************************************************************)
\* the executor has a step to take: a step left to dispatch (the dispatch
\* has no other condition), a response or a failure to come, or its return
ExecutorRuns ==
    /\ pc = "exec_seq"
    /\ \/ xpc = "loop" /\ idx < Len(queries)
       \/ ENABLED (ExecFail \/ ExecReturn)

\* response_stream has returned or was closed: no step is left
StreamOver ==
    /\ ~ExecutorRuns
    /\ ~ENABLED ( \/ Begin \/ Lookup \/ LookupFail \/ Generate
                  \/ SeqReturned \/ SeqRaised
                  \/ SingleRespond \/ SingleFail
                  \/ Contextualize
                  \/ MuxTick \/ MuxReceive \/ MuxTimeout \/ MuxResume
                  \/ CancelAtWait \/ CancelAtYield )

\* C32 (terminal marker): data: [DONE] is never followed by another frame
\* and is never sent twice; a request stream ends only cancelled by the
\* client or done, and a stream that is done, on whatever path (answer,
\* no-data, stage error, unexpected error), has data: [DONE] as its last
\* frame.
C32_TerminalMarker ==
    /\ Positions("data_done") \subseteq {Len(frames)}
    /\ Positions("data_done") # {} => pc = "done"
    /\ pc = "done" => Positions("data_done") = {Len(frames)}
    /\ StreamOver => pc \in {"done", "cancelled"}

\* a stream with a heartbeat, a chunk and the error frame of the
\* multiplexer is over with data: [DONE] as its last frame
C32_Witness ==
    /\ pc = "done"
    /\ StreamOver
    /\ Positions("thinking") # {}
    /\ Positions("chunk") # {}
    /\ Positions("error") = {Len(frames) - 1}
    /\ Positions("data_done") = {Len(frames)}

\* the other ends: no data, an error raised by a stage, an unexpected error
DoneAfterNoData ==
    pc = "done" /\ Positions("no_data") = {Len(frames) - 1} /\ Positions("data_done") = {Len(frames)}
DoneAfterStageError ==
    /\ ContextualizeRaised
    /\ Positions("Error") = {Len(frames) - 1}
    /\ Positions("data_done") = {Len(frames)}
DoneAfterUnexpected ==
    /\ LookupRaised
    /\ Positions("Error") = {Len(frames) - 1}
    /\ Positions("data_done") = {Len(frames)}
DoneAfterAnswer ==
    /\ pc = "done"
    /\ mpc = "ended"
    /\ upstream.state = "finished"
    /\ frames[Len(frames) - 1].k = "chunk"
    /\ Positions("data_done") = {Len(frames)}

(***************************************************************************)
(* /cache/stats and /queries/top: two readers of                           *)
(* redis_client.get_popular_queries                                        *)
(***************************************************************************)
MaxCount == 2       \* the counts of a popular query: 1 .. MaxCount
MaxRecords == 2     \* the records get_popular_queries returns at most
MaxServed == 2      \* the calls of the two endpoints

AskedQueries == { <<"T","o","p"," ","1","0">>, <<"h","i">> }

\* a record of the popularity ranking: a dict, its items in insertion order
PopularRecord(q, c) ==
    << [key |-> "original_query", val |-> q],
       [key |-> "normalized_query", val |-> lower(q)],
       [key |-> "count", val |-> c] >>

\* python: d[key]
Field(d, key) == d[CHOOSE i \in 1..Len(d) : d[i].key = key].val

\* the sequences the ranking may be: at most limit records of distinct
\* queries, the counts descending
Ranked(s) ==
    /\ \A i \in 1..(Len(s) - 1) : Field(s[i], "count") >= Field(s[i + 1], "count")
    /\ \A i, j \in 1..Len(s) :
          Field(s[i], "original_query") = Field(s[j], "original_query") => i = j

PopularSequences(limit) ==
    UNION { { s \in [1..n -> { PopularRecord(q, c) : q \in AskedQueries, c \in 1..MaxCount }] :
                Ranked(s) } : n \in 0..Min2(limit, MaxRecords) }

\* what the call of get_popular_queries gives: a sequence, or it raises
Returned(s) == [raised |-> FALSE, value |-> s]
RedisRaised == [raised |-> TRUE, value |-> << >>]
PopularReturns(limit) == { Returned(s) : s \in PopularSequences(limit) } \cup {RedisRaised}

\* the answers of the endpoints: a body, an error object (line 615), an
\* HTTPException (line 341)
Ok(body) == [status |-> 200, error |-> FALSE, body |-> body]
ErrorObject == [status |-> 200, error |-> TRUE, body |-> << >>]
HTTPException == [status |-> 500, error |-> TRUE, body |-> << >>]

\* python: query, count = element; iterating a dict gives its keys, and the
\* unpacking wants exactly two items
Unpacks(element) == Len(element) = 2
Unpacked(element) == [query |-> element[1].key, count |-> element[2].key]

\* lines 599-615 on what get_popular_queries(limit=10) gave
CacheStats(popular_queries) ==
    IF popular_queries.raised THEN ErrorObject
    ELSE IF \A i \in 1..Len(popular_queries.value) : Unpacks(popular_queries.value[i])
    THEN Ok([i \in 1..Len(popular_queries.value) |-> Unpacked(popular_queries.value[i])])
    ELSE ErrorObject       \* ValueError: too many values to unpack

\* lines 323-341 on what get_popular_queries(limit=limit) gave
TopQueries(popular_queries) ==
    IF popular_queries.raised THEN HTTPException
    ELSE Ok([i \in 1..Len(popular_queries.value) |->
                [rank |-> i,
                 query |-> Field(popular_queries.value[i], "original_query"),
                 normalized_query |-> Field(popular_queries.value[i], "normalized_query"),
                 frequency |-> Field(popular_queries.value[i], "count")]])

Answered(endpoint, limit, popular_queries, response) ==
    [endpoint |-> endpoint, limit |-> limit, popular_queries |-> popular_queries,
     response |-> response]

\* the variables the two endpoints leave alone
streamVars == <<execVars, pipeVars, mpc, upstream, read, now, last_status_time,
                message_cycle, streams>>

\* GET /cache/stats
get_cache_stats ==
    /\ Len(served) < MaxServed
    /\ \E r \in PopularReturns(10) :
          served' = Append(served, Answered("/cache/stats", 10, r, CacheStats(r)))
    /\ UNCHANGED streamVars

\* GET /queries/top?limit=N
get_top_queries ==
    /\ Len(served) < MaxServed
    /\ \E limit \in {1, 5} : \E r \in PopularReturns(limit) :
          served' = Append(served, Answered("/queries/top", limit, r, TopQueries(r)))
    /\ UNCHANGED streamVars

StatsNext == get_cache_stats \/ get_top_queries

SpecStats == StreamsInit /\ [][StatsNext]_vars

\* the records of call k of the endpoints
RecordsOf(k) == served[k].popular_queries.value

\* call k answered with one { query, count } entry per record, in order
StatsPerRecord(k) ==
    /\ ~served[k].response.error
    /\ Len(served[k].response.body) = Len(RecordsOf(k))
    /\ \A i \in 1..Len(RecordsOf(k)) :
          /\ served[k].response.body[i].query = Field(RecordsOf(k)[i], "original_query")
          /\ served[k].response.body[i].count = Field(RecordsOf(k)[i], "count")

\* call k answered with the records in order, ranks 1..n, frequency = count
TopPerRecord(k) ==
    /\ ~served[k].response.error
    /\ Len(served[k].response.body) = Len(RecordsOf(k))
    /\ \A i \in 1..Len(RecordsOf(k)) :
          /\ served[k].response.body[i].rank = i
          /\ served[k].response.body[i].query = Field(RecordsOf(k)[i], "original_query")
          /\ served[k].response.body[i].normalized_query
                 = Field(RecordsOf(k)[i], "normalized_query")
          /\ served[k].response.body[i].frequency = Field(RecordsOf(k)[i], "count")

\* C33 (cache statistics): when get_popular_queries returns a sequence of
\* records { original_query, normalized_query, count }, /cache/stats returns
\* one { query, count } entry per record, in the same order, with the
\* record's query text and count, and no error object; /queries/top returns
\* the records in the same order with ranks 1..n and frequency = count.
C33_CacheStatistics ==
    \A k \in 1..Len(served) :
        ~served[k].popular_queries.raised =>
            IF served[k].endpoint = "/cache/stats" THEN StatsPerRecord(k) ELSE TopPerRecord(k)

\* the half of it about /queries/top
TopQueriesRanked ==
    \A k \in 1..Len(served) :
        (~served[k].popular_queries.raised /\ served[k].endpoint = "/queries/top")
            => TopPerRecord(k)

\* /cache/stats on a ranking without records
CacheStatsOnNone ==
    \A k \in 1..Len(served) :
        (served[k].endpoint = "/cache/stats" /\ served[k].popular_queries = Returned(<< >>))
            => served[k].response = Ok(<< >>)

\* /cache/stats and /queries/top were called on the same two records: the
\* first answered with the error object, the second with the ranking
StatsFailedTopRanked ==
    /\ Len(served) = 2
    /\ served[1].endpoint = "/cache/stats"
    /\ served[2].endpoint = "/queries/top"
    /\ served[1].popular_queries = served[2].popular_queries
    /\ Len(RecordsOf(1)) = 2
    /\ served[1].response = ErrorObject
    /\ TopPerRecord(2)

====
